---- MODULE Spec2Model ----
(***************************************************************************)
(* Model of proxy.py, the SFC proxy: three receive loops (threads)         *)
(* unencapsulating_loop, encapsulating_loop and test_loop over three raw   *)
(* sockets, the two module-global session dictionaries, and the header     *)
(* codecs they use.  Frames are sequences of bytes (0..255).               *)
(***************************************************************************)
EXTENDS Integers, Sequences, FiniteSets, TLC

(***************************************************************************)
(* Bounds of the model.                                                    *)
(***************************************************************************)
\* frames received in a run, over the three interfaces together
MaxFrames == 4
\* sends in a run that accept fewer bytes than offered
MaxShort == 1

(***************************************************************************)
(* Python slicing and struct helpers.                                      *)
(***************************************************************************)
Min(a, b) == IF a < b THEN a ELSE b

\* s[:n]
Take(s, n) == SubSeq(s, 1, Min(n, Len(s)))

\* s[n:]
Drop(s, n) == SubSeq(s, n + 1, Len(s))

\* s[a:b]
Slice(s, a, b) == SubSeq(s, a + 1, Min(b, Len(s)))

\* struct "!H" and "!L": big-endian unsigned
U16(b, i) == b[i] * 256 + b[i + 1]
U32(b, i) == ((b[i] * 256 + b[i + 1]) * 256 + b[i + 2]) * 256 + b[i + 3]
\* mutant: the low byte first
P16_low_byte_first(v) == << v % 256, v \div 256 >>
P16(v) == << v \div 256, v % 256 >>
P32(v) == << v \div 16777216, (v \div 65536) % 256, (v \div 256) % 256, v % 256 >>

\* struct.pack refuses a value outside the field's range (struct.error)
FitsU8(v) == v >= 0 /\ v <= 255
FitsU16(v) == v >= 0 /\ v <= 65535
FitsU32(v) == v >= 0 /\ v \div 65536 <= 65535

(***************************************************************************)
(* Header record types (MetaStruct classes): new() is struct.unpack, which *)
(* raises struct.error unless the record has exactly the format's size.    *)
(***************************************************************************)
StructEthHeader_size == 14
StructEthHeader(h) ==
    [eth_dst |-> SubSeq(h, 1, 6), eth_src |-> SubSeq(h, 7, 12), eth_type |-> U16(h, 13)]
StructEthHeader_pack(nt) == nt.eth_dst \o nt.eth_src \o P16(nt.eth_type)

StructNshHeader_size == 24
StructNshHeader(h) ==
    [nsh_flags_length |-> U16(h, 1), nsh_md_type |-> h[3], nsh_np |-> h[4],
     nsh_sph |-> U32(h, 5), nsh_ctx1 |-> U32(h, 9), nsh_ctx2 |-> U32(h, 13),
     nsh_ctx3 |-> U32(h, 17), nsh_ctx4 |-> U32(h, 21)]
StructNshHeader_pack(nt) ==
    P16(nt.nsh_flags_length) \o << nt.nsh_md_type, nt.nsh_np >> \o P32(nt.nsh_sph)
      \o P32(nt.nsh_ctx1) \o P32(nt.nsh_ctx2) \o P32(nt.nsh_ctx3) \o P32(nt.nsh_ctx4)
\* struct.pack raises struct.error when a field is out of range
StructNshHeader_packable(nt) ==
    /\ FitsU16(nt.nsh_flags_length) /\ FitsU8(nt.nsh_md_type) /\ FitsU8(nt.nsh_np)
    /\ FitsU32(nt.nsh_sph) /\ FitsU32(nt.nsh_ctx1) /\ FitsU32(nt.nsh_ctx2)
    /\ FitsU32(nt.nsh_ctx3) /\ FitsU32(nt.nsh_ctx4)
get_nsh_spi(nt) == nt.nsh_sph \div 256
get_nsh_si(nt) == nt.nsh_sph % 256
\* mutant: the new service path header is the Service Index alone
make_nsh_sph_with_si_alone(nt, new_nsh_si) == new_nsh_si
make_nsh_sph_with_si(nt, new_nsh_si) == get_nsh_spi(nt) * 256 + new_nsh_si

StructUdpHeader_size == 8
StructUdpHeader(h) ==
    [udp_src_port |-> U16(h, 1), udp_dst_port |-> U16(h, 3),
     udp_data_length |-> U16(h, 5), udp_checksum |-> U16(h, 7)]
StructUdpHeader_pack(nt) ==
    P16(nt.udp_src_port) \o P16(nt.udp_dst_port) \o P16(nt.udp_data_length)
      \o P16(nt.udp_checksum)

StructIpHeader_size == 20
StructIpHeader(h) ==
    [ip_ver_ihl_type |-> U16(h, 1), ip_total_length |-> U16(h, 3), ip_id |-> U16(h, 5),
     ip_flags_frag_offset |-> U16(h, 7), ip_time2live |-> h[9], ip_protocol |-> h[10],
     ip_hdr_checksum |-> U16(h, 11), ip_src |-> SubSeq(h, 13, 16),
     ip_dst |-> SubSeq(h, 17, 20)]
StructIpHeader_pack(nt) ==
    P16(nt.ip_ver_ihl_type) \o P16(nt.ip_total_length) \o P16(nt.ip_id)
      \o P16(nt.ip_flags_frag_offset) \o << nt.ip_time2live, nt.ip_protocol >>
      \o P16(nt.ip_hdr_checksum) \o nt.ip_src \o nt.ip_dst

StructTcpHeaderWithoutOptions_size == 20
StructTcpHeaderWithoutOptions(h) ==
    [tcp_src_port |-> U16(h, 1), tcp_dst_port |-> U16(h, 3), tcp_seq_number |-> U32(h, 5),
     tcp_ack |-> U32(h, 9), tcp_byte_data_offset |-> h[13], tcp_flags |-> h[14],
     tcp_win_size |-> U16(h, 15), tcp_checksum |-> U16(h, 17),
     tcp_urgent_ptr |-> U16(h, 19)]
StructTcpHeaderWithoutOptions_pack(nt) ==
    P16(nt.tcp_src_port) \o P16(nt.tcp_dst_port) \o P32(nt.tcp_seq_number)
      \o P32(nt.tcp_ack) \o << nt.tcp_byte_data_offset, nt.tcp_flags >>
      \o P16(nt.tcp_win_size) \o P16(nt.tcp_checksum) \o P16(nt.tcp_urgent_ptr)

StructPseudoHeader_size == 12
StructPseudoHeader(h) ==
    [src |-> SubSeq(h, 1, 4), dst |-> SubSeq(h, 5, 8), zero |-> h[9], protocol |-> h[10],
     tcp_length |-> U16(h, 11)]
StructPseudoHeader_pack(nt) ==
    nt.src \o nt.dst \o << nt.zero, nt.protocol >> \o P16(nt.tcp_length)

StructVxLanGPEHeader_size == 8
StructVxLanGPEHeader(h) ==
    [vxlan_flags |-> h[1], vxlan_reserved1 |-> U16(h, 2), next_proto |-> h[4],
     vni |-> SubSeq(h, 5, 7), vxlan_reserved2 |-> h[8]]
StructVxLanGPEHeader_pack(nt) ==
    << nt.vxlan_flags >> \o P16(nt.vxlan_reserved1) \o << nt.next_proto >> \o nt.vni
      \o << nt.vxlan_reserved2 >>

(***************************************************************************)
(* Parsers: (header, payload) by slicing; they never fail on a short       *)
(* packet, except parse_ip (packet[0]) and parse_tcp (unpack of 20 bytes). *)
(***************************************************************************)
eth_header_length == 14
parse_ethernet(frame) ==
    [header |-> Take(frame, eth_header_length),
     payload |-> Drop(frame, eth_header_length)]

nsh_header_length == 8
nsh_context_length == 16
parse_nsh(packet) ==
    [header |-> Take(packet, nsh_header_length + nsh_context_length),
     payload |-> Drop(packet, nsh_header_length + nsh_context_length)]

\* packet[0] raises IndexError on an empty packet
parse_ip_raises(packet) == Len(packet) = 0
parse_ip(packet) ==
    LET header_length_in_bytes == (packet[1] % 16) * 4
    IN  [header |-> Take(packet, header_length_in_bytes),
         payload |-> Drop(packet, header_length_in_bytes)]

udp_header_length == 8
parse_udp(packet) ==
    [header |-> Take(packet, udp_header_length),
     payload |-> Drop(packet, udp_header_length)]

vxlan_header_length == 8
parse_vxlan_gpe(packet) ==
    [header |-> Take(packet, vxlan_header_length),
     payload |-> Drop(packet, vxlan_header_length)]

tcp_header_basic_length == 20
\* StructTcpHeaderWithoutOptions(packet[:20]) raises struct.error on a short packet
parse_tcp_raises(packet) == Len(Take(packet, tcp_header_basic_length)) # StructTcpHeaderWithoutOptions_size
parse_tcp(packet) ==
    LET header_without_options == Take(packet, tcp_header_basic_length)
        nt == StructTcpHeaderWithoutOptions(header_without_options)
        data_offset == nt.tcp_byte_data_offset \div 16
        header_length == data_offset * 4
    IN  [header_without_options |-> header_without_options,
         options |-> Slice(packet, tcp_header_basic_length, header_length),
         payload |-> Drop(packet, header_length)]

(***************************************************************************)
(* Header rewriting helpers used on replay.                                *)
(***************************************************************************)
make_ethernet_header_swap(header) ==
    LET outer_eth_header_nt == StructEthHeader(header)
    IN  StructEthHeader_pack([outer_eth_header_nt EXCEPT
                                !.eth_dst = outer_eth_header_nt.eth_src,
                                !.eth_src = outer_eth_header_nt.eth_dst])

\* array.array("H", pkt): 16-bit words in the host's byte order, summed
RECURSIVE array_H_sum(_, _)
array_H_sum(pkt, byteorder) ==
    IF pkt = << >> THEN 0
    ELSE (IF byteorder = "little" THEN pkt[1] + 256 * pkt[2] ELSE 256 * pkt[1] + pkt[2])
           + array_H_sum(Drop(pkt, 2), byteorder)

\* struct.pack("H",1) == "\x00\x01" compares bytes with a str: never equal
calculate_checksum_big_endian(byteorder) == FALSE

calculate_checksum(pkt, byteorder) ==
    LET padded == IF Len(pkt) % 2 = 1 THEN pkt \o << 0 >> ELSE pkt
        s0 == array_H_sum(padded, byteorder)
        s1 == (s0 \div 65536) + (s0 % 65536)
        s2 == s1 + (s1 \div 65536)
        \* the low 16 bits of ~s2
        s3 == 65535 - (s2 % 65536)
    IN  IF calculate_checksum_big_endian(byteorder) THEN s3
        ELSE (s3 % 256) * 256 + (s3 \div 256)

calculate_ip_checksum(pkt, byteorder) ==
    calculate_checksum(Slice(pkt, 0, 10) \o << 0 >> \o << 0 >> \o Slice(pkt, 12, Len(pkt)),
                       byteorder)

make_ip_header(header, new_ip_total_length, byteorder) ==
    LET nt == [StructIpHeader(header) EXCEPT !.ip_total_length = new_ip_total_length]
    IN  StructIpHeader_pack(
            [nt EXCEPT !.ip_hdr_checksum = calculate_ip_checksum(StructIpHeader_pack(nt),
                                                                 byteorder)])

\* mutant: the source is copied over the destination, nothing goes the other way
make_ip_header_swap_src_only(header) ==
    LET ip_header_nt == StructIpHeader(header)
    IN  StructIpHeader_pack([ip_header_nt EXCEPT !.ip_dst = ip_header_nt.ip_src])

make_ip_header_swap(header) ==
    LET ip_header_nt == StructIpHeader(header)
    IN  StructIpHeader_pack([ip_header_nt EXCEPT
                               !.ip_src = ip_header_nt.ip_dst,
                               !.ip_dst = ip_header_nt.ip_src])

\* the record make_nsh_decr_si packs: SI - 1 added to SPI << 8, unconditionally
make_nsh_decr_si_nt(nsh_header) ==
    LET nt == StructNshHeader(nsh_header)
    IN  [nt EXCEPT !.nsh_sph = make_nsh_sph_with_si(nt, get_nsh_si(nt) - 1)]
\* nt.pack() raises struct.error when the new nsh_sph is negative
make_nsh_decr_si_raises(nsh_header) ==
    ~StructNshHeader_packable(make_nsh_decr_si_nt(nsh_header))
make_nsh_decr_si(nsh_header) == StructNshHeader_pack(make_nsh_decr_si_nt(nsh_header))

(***************************************************************************)
(* The session dictionaries: a dict is a function on its set of keys.      *)
(***************************************************************************)
EmptyDict == << >>
DictHas(d, k) == k \in DOMAIN d
DictSet(d, k, v) == [x \in (DOMAIN d) \cup {k} |-> IF x = k THEN v ELSE d[x]]

ETH_P_IP == 2048
IPPROTO_UDP == 17
IPPROTO_TCP == 6
VXLAN_GPE_PORT == 4790

\* what a handler leaves behind: raised (an uncaught exception ends the thread),
\* the two dictionaries, the packet to drain and the reply flag
Handled(raised, sess, reply_info, new_pkt, isReply) ==
    [raised |-> raised, sessions |-> sess, sessions_reply_info |-> reply_info,
     new_pkt |-> new_pkt, isReply |-> isReply]

\* mutant: plain VXLAN's port 4789 passes as well
deencap_is_vxlan_gpe_or_vxlan(dst_port) == dst_port = VXLAN_GPE_PORT \/ dst_port = VXLAN_GPE_PORT - 1

\* if dst_port == 4790
deencap_is_vxlan_gpe(dst_port) == dst_port = VXLAN_GPE_PORT

\* mutant: no frame is a reply
deencap_is_reply_never(key, swapped_key, sess) == FALSE

\* mutant: the reply test looks the frame's own key up
deencap_is_reply_own_key(key, swapped_key, sess) == DictHas(sess, key)

\* if swapped_key in sessions
deencap_is_reply(key, swapped_key, sess) == DictHas(sess, swapped_key)

\* mutant: the bundle is stored as a reply bundle for every frame
deencap_reply_info_always(isReply, swapped_key, bundle, reply_info) ==
    DictSet(reply_info, swapped_key, bundle)

\* mutant: the reply bundle is not written before the send loop
deencap_reply_info_not_yet(isReply, swapped_key, bundle, reply_info) == reply_info

\* sessions_reply_info[swapped_key] = (...), if isReply
deencap_reply_info(isReply, swapped_key, bundle, reply_info) ==
    IF isReply THEN DictSet(reply_info, swapped_key, bundle) ELSE reply_info

\* mutant: a forward frame's entry replaces the dictionary
deencap_sessions_only_latest(isReply, key, bundle, sess) ==
    IF ~isReply THEN DictSet(EmptyDict, key, bundle) ELSE sess

\* mutant: replies create sessions too
deencap_sessions_also_on_reply(isReply, key, bundle, sess) == DictSet(sess, key, bundle)

\* mutant: a reply empties sessions
deencap_sessions_forget_on_reply(isReply, key, bundle, sess) ==
    IF ~isReply THEN DictSet(sess, key, bundle) ELSE EmptyDict

\* sessions[key] = (...), if not isReply
deencap_sessions(isReply, key, bundle, sess) ==
    IF ~isReply THEN DictSet(sess, key, bundle) ELSE sess

\* mutant: the frame goes out as received, outer stack included
deencap_new_pkt_whole_frame(frame, nsh_payload) == frame

\* new_pkt = nsh_payload
deencap_new_pkt(frame, nsh_payload) == nsh_payload

parse_frame_and_deencapsulate(frame, sess, reply_info) ==
    LET Raise == Handled(TRUE, sess, reply_info, << >>, FALSE)
        Ignore == Handled(FALSE, sess, reply_info, << >>, FALSE)
        outer_eth == parse_ethernet(frame)
    IN
    IF Len(outer_eth.header) # StructEthHeader_size THEN Raise
    ELSE IF StructEthHeader(outer_eth.header).eth_type # ETH_P_IP THEN Ignore
    ELSE IF parse_ip_raises(outer_eth.payload) THEN Raise
    ELSE LET ip == parse_ip(outer_eth.payload) IN
    IF Len(ip.header) # StructIpHeader_size THEN Raise
    ELSE IF StructIpHeader(ip.header).ip_protocol # IPPROTO_UDP THEN Ignore
    ELSE LET udp == parse_udp(ip.payload) IN
    IF Len(udp.header) # StructUdpHeader_size THEN Raise
    ELSE IF ~deencap_is_vxlan_gpe(StructUdpHeader(udp.header).udp_dst_port) THEN Ignore
    ELSE LET vxlan == parse_vxlan_gpe(udp.payload) IN
    IF Len(vxlan.header) # StructVxLanGPEHeader_size THEN Raise
    ELSE LET eth_nsh == parse_ethernet(vxlan.payload) IN
    IF Len(eth_nsh.header) # StructEthHeader_size THEN Raise
    ELSE LET nsh == parse_nsh(eth_nsh.payload) IN
    IF Len(nsh.header) # StructNshHeader_size THEN Raise
    ELSE LET inner_eth == parse_ethernet(nsh.payload) IN
    IF Len(inner_eth.header) # StructEthHeader_size THEN Raise
    ELSE IF parse_ip_raises(inner_eth.payload) THEN Raise
    ELSE LET inner_ip == parse_ip(inner_eth.payload) IN
    IF Len(inner_ip.header) # StructIpHeader_size THEN Raise
    ELSE IF parse_tcp_raises(inner_ip.payload) THEN Raise
    ELSE LET inner_tcp == parse_tcp(inner_ip.payload)
             inner_eth_header_nt == StructEthHeader(inner_eth.header)
             inner_ip_header_nt == StructIpHeader(inner_ip.header)
             inner_tcp_header_nt == StructTcpHeaderWithoutOptions(inner_tcp.header_without_options)
             eth_dst == inner_eth_header_nt.eth_dst
             eth_src == inner_eth_header_nt.eth_src
             eth_type == inner_eth_header_nt.eth_type
             ip_dst == inner_ip_header_nt.ip_dst
             ip_src == inner_ip_header_nt.ip_src
             tcp_dst_port == inner_tcp_header_nt.tcp_dst_port
             tcp_src_port == inner_tcp_header_nt.tcp_src_port
             key == << eth_dst, eth_src, eth_type, ip_dst, ip_src, tcp_dst_port, tcp_src_port >>
             swapped_key == << eth_src, eth_dst, eth_type, ip_src, ip_dst, tcp_src_port, tcp_dst_port >>
             isReply == deencap_is_reply(key, swapped_key, sess)
             bundle == << outer_eth.header, ip.header, udp.header, vxlan.header,
                          eth_nsh.header, nsh.header >>
         IN  Handled(FALSE,
                     deencap_sessions(isReply, key, bundle, sess),
                     deencap_reply_info(isReply, swapped_key, bundle, reply_info),
                     deencap_new_pkt(frame, nsh.payload),
                     isReply)

\* if key in sessions
encap_session_found(key, sess) == DictHas(sess, key)

\* the outbound frame of the encapsulating thread, from the bundle sessions[key]
encap_new_pkt(bundle, frame) ==
    LET new_outer_eth_header_swapped == make_ethernet_header_swap(bundle[1])
        new_ip_header_swapped == make_ip_header_swap(bundle[2])
        new_nsh_header_decremented == make_nsh_decr_si(bundle[6])
    IN  new_outer_eth_header_swapped \o new_ip_header_swapped \o bundle[3] \o bundle[4]
          \o bundle[5] \o new_nsh_header_decremented \o frame

\* mutant: UDP passes as well
bare_is_tcp_or_udp(ip_protocol) == ip_protocol = IPPROTO_TCP \/ ip_protocol = IPPROTO_UDP

\* if ip_protocol == 6
bare_is_tcp(ip_protocol) == ip_protocol = IPPROTO_TCP

\* the Ethernet/IPv4/TCP parse the two encapsulating handlers share:
\* "raise", "ignore" or "tcp" (then with the key and the swapped key)
parse_bare_frame(frame) ==
    LET outer_eth == parse_ethernet(frame)
        None == [what |-> "ignore", key |-> << >>, swapped_key |-> << >>]
        Raise == [None EXCEPT !.what = "raise"]
    IN
    IF Len(outer_eth.header) # StructEthHeader_size THEN Raise
    ELSE IF StructEthHeader(outer_eth.header).eth_type # ETH_P_IP THEN None
    ELSE IF parse_ip_raises(outer_eth.payload) THEN Raise
    ELSE LET ip == parse_ip(outer_eth.payload) IN
    IF Len(ip.header) # StructIpHeader_size THEN Raise
    ELSE IF ~bare_is_tcp(StructIpHeader(ip.header).ip_protocol) THEN None
    ELSE IF parse_tcp_raises(ip.payload) THEN Raise
    ELSE LET tcp == parse_tcp(ip.payload)
             outer_eth_header_nt == StructEthHeader(outer_eth.header)
             ip_header_nt == StructIpHeader(ip.header)
             tcp_header_nt == StructTcpHeaderWithoutOptions(tcp.header_without_options)
             eth_dst == outer_eth_header_nt.eth_dst
             eth_src == outer_eth_header_nt.eth_src
             eth_type == outer_eth_header_nt.eth_type
             ip_dst == ip_header_nt.ip_dst
             ip_src == ip_header_nt.ip_src
             tcp_dst_port == tcp_header_nt.tcp_dst_port
             tcp_src_port == tcp_header_nt.tcp_src_port
         IN  [what |-> "tcp",
              key |-> << eth_dst, eth_src, eth_type, ip_dst, ip_src, tcp_dst_port, tcp_src_port >>,
              swapped_key |-> << eth_src, eth_dst, eth_type, ip_src, ip_dst, tcp_src_port, tcp_dst_port >>]

\* mutant: sessions.pop(key) after the packet is built
parse_frame_and_encapsulate_pops(frame, sess, reply_info) ==
    LET Raise == Handled(TRUE, sess, reply_info, << >>, FALSE)
        Ignore == Handled(FALSE, sess, reply_info, << >>, FALSE)
        p == parse_bare_frame(frame)
    IN
    IF p.what = "raise" THEN Raise
    ELSE IF p.what = "ignore" THEN Ignore
    ELSE IF ~encap_session_found(p.key, sess) THEN Ignore
    ELSE IF make_nsh_decr_si_raises(sess[p.key][6]) THEN Raise
    ELSE Handled(FALSE, [x \in (DOMAIN sess) \ { p.key } |-> sess[x]], reply_info,
                 encap_new_pkt(sess[p.key], frame), FALSE)

\* mutant: sessions[key] is read without the membership test (KeyError on a miss)
parse_frame_and_encapsulate_unguarded(frame, sess, reply_info) ==
    LET Raise == Handled(TRUE, sess, reply_info, << >>, FALSE)
        Ignore == Handled(FALSE, sess, reply_info, << >>, FALSE)
        p == parse_bare_frame(frame)
    IN
    IF p.what = "raise" THEN Raise
    ELSE IF p.what = "ignore" THEN Ignore
    ELSE IF ~DictHas(sess, p.key) THEN Raise
    ELSE IF make_nsh_decr_si_raises(sess[p.key][6]) THEN Raise
    ELSE Handled(FALSE, sess, reply_info, encap_new_pkt(sess[p.key], frame), FALSE)

parse_frame_and_encapsulate(frame, sess, reply_info) ==
    LET Raise == Handled(TRUE, sess, reply_info, << >>, FALSE)
        Ignore == Handled(FALSE, sess, reply_info, << >>, FALSE)
        p == parse_bare_frame(frame)
    IN
    IF p.what = "raise" THEN Raise
    ELSE IF p.what = "ignore" THEN Ignore
    ELSE IF ~encap_session_found(p.key, sess) THEN Ignore
    ELSE IF make_nsh_decr_si_raises(sess[p.key][6]) THEN Raise
    ELSE Handled(FALSE, sess, reply_info, encap_new_pkt(sess[p.key], frame), FALSE)

\* if swapped_key in sessions
test_session_found(swapped_key, sess) == DictHas(sess, swapped_key)

\* mutant: new_nsh_header stays as bound from sessions[swapped_key]
test_new_pkt_forward_nsh(bundle, reply_bundle, frame) ==
    make_ethernet_header_swap(reply_bundle[1]) \o make_ip_header_swap(reply_bundle[2])
      \o reply_bundle[3] \o reply_bundle[4] \o make_ethernet_header_swap(reply_bundle[5])
      \o make_nsh_decr_si(bundle[6]) \o frame

\* the outbound frame of the test thread: new_nsh_header is first bound from
\* sessions[swapped_key] and then rebound from sessions_reply_info[swapped_key]
test_new_pkt(bundle, reply_bundle, frame) ==
    LET new_nsh_header == reply_bundle[6]
        new_nsh_header_decremented == make_nsh_decr_si(new_nsh_header)
        new_reply_outer_eth_header_swapped == make_ethernet_header_swap(reply_bundle[1])
        new_reply_ip_header_swapped == make_ip_header_swap(reply_bundle[2])
        new_reply_eth_nsh_header_swapped == make_ethernet_header_swap(reply_bundle[5])
    IN  new_reply_outer_eth_header_swapped \o new_reply_ip_header_swapped
          \o reply_bundle[3] \o reply_bundle[4] \o new_reply_eth_nsh_header_swapped
          \o new_nsh_header_decremented \o frame

parse_frame_and_encapsulate_test(frame, sess, reply_info) ==
    LET Raise == Handled(TRUE, sess, reply_info, << >>, FALSE)
        Ignore == Handled(FALSE, sess, reply_info, << >>, FALSE)
        p == parse_bare_frame(frame)
    IN
    IF p.what = "raise" THEN Raise
    ELSE IF p.what = "ignore" THEN Ignore
    ELSE IF ~test_session_found(p.swapped_key, sess) THEN Ignore
    \* sessions_reply_info[swapped_key] raises KeyError when no reply was recorded
    ELSE IF ~DictHas(reply_info, p.swapped_key) THEN Raise
    ELSE IF make_nsh_decr_si_raises(reply_info[p.swapped_key][6]) THEN Raise
    ELSE Handled(FALSE, sess, reply_info,
                 test_new_pkt(sess[p.swapped_key], reply_info[p.swapped_key], frame), FALSE)

(***************************************************************************)
(* Frames the three interfaces can deliver.                                *)
(***************************************************************************)
Mac(n) == << 2, 0, 0, 0, 0, n >>
IpAddr(n) == << 10, 0, 0, n >>
ETH_P_NSH == 35151

MkEth(dst, src, type) ==
    StructEthHeader_pack([eth_dst |-> dst, eth_src |-> src, eth_type |-> type])

\* an IPv4 header of ihl words: (ihl - 5) words of NOP options follow the base header
MkIp(ihl, protocol, src, dst, payload_length) ==
    StructIpHeader_pack([ip_ver_ihl_type |-> (64 + ihl) * 256,
                         ip_total_length |-> ihl * 4 + payload_length,
                         ip_id |-> 1, ip_flags_frag_offset |-> 16384,
                         ip_time2live |-> 64, ip_protocol |-> protocol,
                         ip_hdr_checksum |-> 0, ip_src |-> src, ip_dst |-> dst])
      \o [i \in 1..((ihl - 5) * 4) |-> 1]

MkTcp(src_port, dst_port) ==
    StructTcpHeaderWithoutOptions_pack(
        [tcp_src_port |-> src_port, tcp_dst_port |-> dst_port, tcp_seq_number |-> 1000,
         tcp_ack |-> 0, tcp_byte_data_offset |-> 80, tcp_flags |-> 24,
         tcp_win_size |-> 512, tcp_checksum |-> 0, tcp_urgent_ptr |-> 0])

MkUdp(dst_port, payload_length) ==
    StructUdpHeader_pack([udp_src_port |-> 50000, udp_dst_port |-> dst_port,
                          udp_data_length |-> 8 + payload_length, udp_checksum |-> 0])

MkVxlan ==
    StructVxLanGPEHeader_pack([vxlan_flags |-> 12, vxlan_reserved1 |-> 0, next_proto |-> 3,
                               vni |-> << 0, 0, 7 >>, vxlan_reserved2 |-> 0])

make_nsh_mdtype1(nsh_spi, nsh_si) ==
    StructNshHeader_pack([nsh_flags_length |-> 6, nsh_md_type |-> 1, nsh_np |-> 3,
                          nsh_sph |-> nsh_spi * 256 + nsh_si,
                          nsh_ctx1 |-> 0, nsh_ctx2 |-> 0, nsh_ctx3 |-> 0, nsh_ctx4 |-> 0])

\* a bare Ethernet/IPv4/TCP frame, as the service function emits it
MkBare(eth_type, ihl, protocol, a, b, src_port, dst_port, payload) ==
    MkEth(Mac(b), Mac(a), eth_type)
      \o MkIp(ihl, protocol, IpAddr(a), IpAddr(b), 20 + Len(payload))
      \o MkTcp(src_port, dst_port) \o payload

\* the client's frame of the flow, the server's frame of the same flow
BareFwd == MkBare(ETH_P_IP, 5, IPPROTO_TCP, 1, 2, 40000, 80, << 71, 69, 84 >>)
BareRev == MkBare(ETH_P_IP, 5, IPPROTO_TCP, 2, 1, 80, 40000, << 79, 75 >>)
\* ethertype 0x0806 (ARP)
BareArp == MkBare(2054, 5, IPPROTO_TCP, 1, 2, 40000, 80, << >>)
BareUdp == MkBare(ETH_P_IP, 5, IPPROTO_UDP, 1, 2, 40000, 80, << >>)
\* IPv4 header with options (IHL 6)
BareOpt == MkBare(ETH_P_IP, 6, IPPROTO_TCP, 1, 2, 40000, 80, << 71 >>)
\* cut short inside the TCP header
BareCut == Take(BareFwd, 40)

\* an encapsulated frame: outer Ethernet, IPv4, UDP, VXLAN-GPE, Ethernet, NSH, inner frame;
\* o numbers the outer addresses
MkEncap(eth_type, ihl, protocol, dst_port, o, nsh_spi, nsh_si, inner) ==
    LET nsh_part == MkEth(Mac(o + 3), Mac(o + 2), ETH_P_NSH)
                      \o make_nsh_mdtype1(nsh_spi, nsh_si) \o inner
        udp_part == MkUdp(dst_port, 8 + Len(nsh_part)) \o MkVxlan \o nsh_part
    IN  MkEth(Mac(o + 1), Mac(o), eth_type)
          \o MkIp(ihl, protocol, IpAddr(o), IpAddr(o + 1), Len(udp_part)) \o udp_part

EncFwd == MkEncap(ETH_P_IP, 5, IPPROTO_UDP, VXLAN_GPE_PORT, 10, 100, 5, BareFwd)
EncRev == MkEncap(ETH_P_IP, 5, IPPROTO_UDP, VXLAN_GPE_PORT, 20, 100, 3, BareRev)
EncFwdSi0 == MkEncap(ETH_P_IP, 5, IPPROTO_UDP, VXLAN_GPE_PORT, 30, 100, 0, BareFwd)
EncRevSi0 == MkEncap(ETH_P_IP, 5, IPPROTO_UDP, VXLAN_GPE_PORT, 40, 0, 0, BareRev)
\* outer ethertype 0x86DD (IPv6)
EncV6 == MkEncap(34525, 5, IPPROTO_UDP, VXLAN_GPE_PORT, 10, 100, 5, BareFwd)
EncTcp == MkEncap(ETH_P_IP, 5, IPPROTO_TCP, VXLAN_GPE_PORT, 10, 100, 5, BareFwd)
\* outer UDP destination port 4789 (plain VXLAN)
EncVxlan == MkEncap(ETH_P_IP, 5, IPPROTO_UDP, 4789, 10, 100, 5, BareFwd)
\* outer IPv4 header with options (IHL 6)
EncOpt == MkEncap(ETH_P_IP, 6, IPPROTO_UDP, VXLAN_GPE_PORT, 10, 100, 5, BareFwd)
\* cut short inside the inner Ethernet header
EncCut == Take(EncFwd, 100)

\* a flow whose key is its own swap: same address and port at both ends
BareSelf == MkBare(ETH_P_IP, 5, IPPROTO_TCP, 3, 3, 7, 7, << 83 >>)
EncSelf == MkEncap(ETH_P_IP, 5, IPPROTO_UDP, VXLAN_GPE_PORT, 50, 100, 5, BareSelf)
EncSelfNext == MkEncap(ETH_P_IP, 5, IPPROTO_UDP, VXLAN_GPE_PORT, 60, 100, 4, BareSelf)

EncapFrames ==
    { EncFwd, EncRev, EncFwdSi0, EncRevSi0, EncV6, EncTcp, EncVxlan, EncOpt, EncCut }
UnencapInFrames == { BareFwd, BareRev, BareArp, BareUdp, BareOpt, BareCut }
UnencapOutFrames == { BareFwd, BareRev, BareArp, BareUdp, BareOpt, BareCut }

(***************************************************************************)
(* What the claims speak of, read off the bytes of a frame by position.    *)
(***************************************************************************)
\* the six outer headers of an encapsulated frame: 14 + 20 + 8 + 8 + 14 + 24 bytes
OuterStackLen == 14 + 20 + 8 + 8 + 14 + 24
BundleOf(f) ==
    << SubSeq(f, 1, 14), SubSeq(f, 15, 34), SubSeq(f, 35, 42), SubSeq(f, 43, 50),
       SubSeq(f, 51, 64), SubSeq(f, 65, 88) >>
InnerOf(f) == SubSeq(f, OuterStackLen + 1, Len(f))

\* the inner flow key of a bare Ethernet/IPv4/TCP frame, and the swapped key
KeyOf(q) ==
    << SubSeq(q, 1, 6), SubSeq(q, 7, 12), U16(q, 13), SubSeq(q, 31, 34), SubSeq(q, 27, 30),
       U16(q, 37), U16(q, 35) >>
SwapKey(k) == << k[2], k[1], k[3], k[5], k[4], k[7], k[6] >>

\* the Service Index of an NSH header (its byte 8), of an encapsulated frame
NshSi(nsh) == nsh[8]
FrameSi(f) == f[72]

\* the decap parse of f reaches the recording; the bare parse of q reaches the lookup
ParsesEncap(f) ==
    LET h == parse_frame_and_deencapsulate(f, EmptyDict, EmptyDict)
    IN  ~h.raised /\ h.new_pkt # << >>
ParsesBare(q) == parse_bare_frame(q).what = "tcp"

(***************************************************************************)
(* The state: the module globals, and per thread its position and locals.  *)
(***************************************************************************)
Threads == { "unencap", "encap", "test" }
Sockets == { "sckt_encap", "sckt_unencap_in", "sckt_unencap_out" }

VARIABLES
    sessions,             \* global sessions
    sessions_reply_info,  \* global sessions_reply_info
    pc,                   \* per thread: "recv" (in recvfrom), "send" (in the send loop),
                          \* "dead"; in SpecLookup also "found" (past the membership test)
                          \* and "read" (past the read of sessions[swapped_key])
    frame,                \* per thread: the frame recvfrom returned last
    new_pkt,              \* per thread: what is left to send of the packet being drained
    isReply,              \* isReply of parse_frame_and_deencapsulate
    wire,                 \* per socket: the send calls it accepted, in order
    cur,                  \* per thread: how many frames it has received (history)
    built,                \* per thread: new_pkt as built, before the send loop (history)
    nshort,               \* short sends so far
    last_fwd,             \* per inner key k: the last recorded frame of key k that came
                          \* while sessions did not hold swap(k) (history)
    last_rev,             \* per inner key k: the last recorded frame of key swap(k) that
                          \* came while sessions held k (history)
    seen,                 \* per thread: the bundle under its key at its membership
                          \* test (history)
    nsh_header,           \* SpecDecr: the argument of a make_nsh_decr_si call
    nsh_decremented,      \* SpecDecr: whether the call was made, whether it raised, and
                          \* the header it returned
    call,                 \* SpecCalls: a call of a header helper: its name and arguments
    ret                   \* SpecCalls: whether the call was made, and what it returned

vars == << sessions, sessions_reply_info, pc, frame, new_pkt, isReply, wire, cur, built,
           nshort, last_fwd, last_rev, seen, nsh_header, nsh_decremented, call, ret >>

\* frames received so far, over the three interfaces
nrecv == cur["unencap"] + cur["encap"] + cur["test"]

NotCalled == [called |-> FALSE, raised |-> FALSE, header |-> << >>]
NoCall == [fn |-> "none"]
NotReturned == [called |-> FALSE]

Init ==
    /\ sessions = EmptyDict
    /\ sessions_reply_info = EmptyDict
    /\ pc = [t \in Threads |-> "recv"]
    /\ frame = [t \in Threads |-> << >>]
    /\ new_pkt = [t \in Threads |-> << >>]
    /\ isReply = FALSE
    /\ wire = [s \in Sockets |-> << >>]
    /\ cur = [t \in Threads |-> 0]
    /\ built = [t \in Threads |-> << >>]
    /\ nshort = 0
    /\ last_fwd = EmptyDict
    /\ last_rev = EmptyDict
    /\ seen = [t \in Threads |-> << >>]
    /\ nsh_header = << >>
    /\ nsh_decremented = NotCalled
    /\ call = NoCall
    /\ ret = NotReturned

\* mutant: the loop takes the next frame while the send loop still has bytes
Receive_while_sending(t, f, h) ==
    /\ pc[t] \in { "recv", "send" }
    /\ nrecv < MaxFrames
    /\ cur' = [cur EXCEPT ![t] = @ + 1]
    /\ frame' = [frame EXCEPT ![t] = f]
    /\ sessions' = h.sessions
    /\ sessions_reply_info' = h.sessions_reply_info
    /\ new_pkt' = [new_pkt EXCEPT ![t] = h.new_pkt]
    /\ built' = [built EXCEPT ![t] = h.new_pkt]
    /\ pc' = [pc EXCEPT ![t] = IF h.raised THEN "dead"
                                ELSE IF h.new_pkt # << >> THEN "send" ELSE "recv"]
    /\ UNCHANGED << wire, nshort, seen, nsh_header, nsh_decremented,
                    call, ret >>

\* frame, source = sckt.recvfrom(65565), then the handler up to its send loop
Receive(t, f, h) ==
    /\ pc[t] = "recv"
    /\ nrecv < MaxFrames
    /\ cur' = [cur EXCEPT ![t] = @ + 1]
    /\ frame' = [frame EXCEPT ![t] = f]
    /\ sessions' = h.sessions
    /\ sessions_reply_info' = h.sessions_reply_info
    /\ new_pkt' = [new_pkt EXCEPT ![t] = h.new_pkt]
    /\ built' = [built EXCEPT ![t] = h.new_pkt]
    /\ pc' = [pc EXCEPT ![t] = IF h.raised THEN "dead"
                                ELSE IF h.new_pkt # << >> THEN "send" ELSE "recv"]
    /\ UNCHANGED << wire, nshort, seen, nsh_header, nsh_decremented,
                    call, ret >>

\* mutant: the slice drops one byte more than was sent
drain_rest_one_more(pkt, sent) == Drop(pkt, sent + 1)

\* new_pkt = new_pkt[sent:]
drain_rest(pkt, sent) == Drop(pkt, sent)

\* what one sckt.send(new_pkt) can return: everything, or half of it
SendAccepts(pkt) ==
    { Len(pkt) } \cup (IF nshort < MaxShort /\ Len(pkt) > 1 THEN { Len(pkt) \div 2 } ELSE { })

\* one turn of "while new_pkt: sent = sckt.send(new_pkt); new_pkt = new_pkt[sent:]"
Send(t, sckt, sent) ==
    /\ pc[t] = "send"
    /\ wire' = [wire EXCEPT ![sckt] =
                   Append(@, [by |-> t, id |-> cur[t], data |-> Take(new_pkt[t], sent)])]
    /\ new_pkt' = [new_pkt EXCEPT ![t] = drain_rest(new_pkt[t], sent)]
    /\ pc' = [pc EXCEPT ![t] = IF new_pkt'[t] # << >> THEN "send" ELSE "recv"]
    /\ nshort' = IF sent < Len(new_pkt[t]) THEN nshort + 1 ELSE nshort
    /\ UNCHANGED << sessions, sessions_reply_info, frame, isReply, cur, built,
                    last_fwd, last_rev, seen, nsh_header, nsh_decremented,
                    call, ret >>

\* mutant: every inner frame goes to the socket the loop passed in
deencap_send_sckt_always_out(reply) == "sckt_unencap_out"

\* sckt.send if not isReply (sckt is sckt_unencap_out), sckt_unencap_in.send otherwise
deencap_send_sckt(reply) == IF ~reply THEN "sckt_unencap_out" ELSE "sckt_unencap_in"

\* one turn of the loop up to the send loop, for the frames Frames can deliver
unencapsulating_loop_recv_of(Frames) ==
    \E f \in Frames :
        LET h == parse_frame_and_deencapsulate(f, sessions, sessions_reply_info)
            k == KeyOf(InnerOf(f))
            rec == ~h.raised /\ h.new_pkt # << >>
        IN  /\ Receive("unencap", f, h)
            /\ isReply' = h.isReply
            /\ last_fwd' = IF rec /\ ~DictHas(sessions, SwapKey(k))
                            THEN DictSet(last_fwd, k, f)
                            ELSE last_fwd
            /\ last_rev' = IF rec /\ DictHas(sessions, SwapKey(k))
                            THEN DictSet(last_rev, SwapKey(k), f)
                            ELSE last_rev

unencapsulating_loop_recv == unencapsulating_loop_recv_of(EncapFrames)

unencapsulating_loop_send ==
    \E sent \in SendAccepts(new_pkt["unencap"]) :
        Send("unencap", deencap_send_sckt(isReply), sent)

encapsulating_loop_recv_of(Frames) ==
    \E f \in Frames :
        /\ Receive("encap", f, parse_frame_and_encapsulate(f, sessions, sessions_reply_info))
        /\ UNCHANGED << isReply, last_fwd, last_rev >>

encapsulating_loop_recv == encapsulating_loop_recv_of(UnencapInFrames)

encapsulating_loop_send ==
    \E sent \in SendAccepts(new_pkt["encap"]) : Send("encap", "sckt_encap", sent)

test_loop_recv_of(Frames) ==
    \E f \in Frames :
        /\ Receive("test", f, parse_frame_and_encapsulate_test(f, sessions, sessions_reply_info))
        /\ UNCHANGED << isReply, last_fwd, last_rev >>

test_loop_recv == test_loop_recv_of(UnencapOutFrames)

test_loop_send ==
    \E sent \in SendAccepts(new_pkt["test"]) : Send("test", "sckt_encap", sent)

Next ==
    \/ unencapsulating_loop_recv
    \/ unencapsulating_loop_send
    \/ encapsulating_loop_recv
    \/ encapsulating_loop_send
    \/ test_loop_recv
    \/ test_loop_send

Spec == Init /\ [][Next]_vars

\* the encapsulating thread is scheduled: a send loop that can turn does turn
SpecFair == Init /\ [][Next]_vars /\ WF_vars(encapsulating_loop_send)

(***************************************************************************)
(* The same threads with the dictionary accesses of the two encapsulating  *)
(* handlers as separate steps: the membership test, then each subscript    *)
(* read.  A subscript read yields the whole tuple stored under the key, a  *)
(* subscript store puts a whole tuple; the unencapsulating thread may run  *)
(* between any two of these steps.                                         *)
(***************************************************************************)
RecordedFrames == { EncFwd, EncRev, EncFwdSi0, EncRevSi0 }
FlowFrames == { BareFwd, BareRev }

\* recvfrom, the parse, and "if key in sessions" / "if swapped_key in sessions"
Lookup(t, f, found, under) ==
    LET p == parse_bare_frame(f)
    IN  /\ pc[t] = "recv"
        /\ nrecv < MaxFrames
        /\ cur' = [cur EXCEPT ![t] = @ + 1]
        /\ frame' = [frame EXCEPT ![t] = f]
        /\ new_pkt' = [new_pkt EXCEPT ![t] = << >>]
        /\ built' = [built EXCEPT ![t] = << >>]
        /\ pc' = [pc EXCEPT ![t] = IF p.what = "raise" THEN "dead"
                                    ELSE IF p.what = "tcp" /\ found THEN "found" ELSE "recv"]
        /\ seen' = [seen EXCEPT ![t] = IF p.what = "tcp" /\ found THEN under ELSE << >>]
        /\ UNCHANGED << sessions, sessions_reply_info, isReply, wire, nshort, last_fwd,
                        last_rev, nsh_header, nsh_decremented,
                    call, ret >>

\* the rest of a handler once the tuple is read: make_nsh_decr_si may raise,
\* otherwise new_pkt is built and the send loop entered
Build(t, raises, pkt) ==
    /\ new_pkt' = [new_pkt EXCEPT ![t] = IF raises THEN << >> ELSE pkt]
    /\ built' = [built EXCEPT ![t] = IF raises THEN << >> ELSE pkt]
    /\ pc' = [pc EXCEPT ![t] = IF raises THEN "dead" ELSE "send"]
    /\ UNCHANGED << sessions, sessions_reply_info, frame, isReply, wire, cur, nshort,
                    last_fwd, last_rev, seen, nsh_header, nsh_decremented,
                    call, ret >>

encapsulating_loop_lookup ==
    \E f \in FlowFrames :
        LET key == parse_bare_frame(f).key
        IN  Lookup("encap", f, encap_session_found(key, sessions),
                   IF DictHas(sessions, key) THEN sessions[key] ELSE << >>)

\* (...) = sessions[key], and the handler up to its send loop
encapsulating_loop_read ==
    /\ pc["encap"] = "found"
    /\ LET bundle == sessions[parse_bare_frame(frame["encap"]).key]
       IN  Build("encap", make_nsh_decr_si_raises(bundle[6]),
                 encap_new_pkt(bundle, frame["encap"]))

test_loop_lookup ==
    \E f \in FlowFrames :
        LET swapped_key == parse_bare_frame(f).swapped_key
        IN  Lookup("test", f, test_session_found(swapped_key, sessions),
                   IF DictHas(sessions_reply_info, swapped_key)
                   THEN sessions_reply_info[swapped_key] ELSE << >>)

\* (...) = sessions[swapped_key]: the key is there, the names bound here are
\* either unused or bound again by the next read
test_loop_read_sessions ==
    /\ pc["test"] = "found"
    /\ DictHas(sessions, parse_bare_frame(frame["test"]).swapped_key)
    /\ pc' = [pc EXCEPT !["test"] = "read"]
    /\ UNCHANGED << sessions, sessions_reply_info, frame, new_pkt, isReply, wire, cur, built,
                    nshort, last_fwd, last_rev, seen, nsh_header, nsh_decremented,
                    call, ret >>

\* (...) = sessions_reply_info[swapped_key] (KeyError on a miss), and the
\* handler up to its send loop
test_loop_read_reply_info ==
    /\ pc["test"] = "read"
    /\ LET swapped_key == parse_bare_frame(frame["test"]).swapped_key
       IN  IF ~DictHas(sessions_reply_info, swapped_key)
           THEN Build("test", TRUE, << >>)
           ELSE Build("test", make_nsh_decr_si_raises(sessions_reply_info[swapped_key][6]),
                      test_new_pkt(sessions[swapped_key], sessions_reply_info[swapped_key],
                                   frame["test"]))

NextLookup ==
    \/ unencapsulating_loop_recv_of(RecordedFrames)
    \/ unencapsulating_loop_send
    \/ encapsulating_loop_lookup
    \/ encapsulating_loop_read
    \/ encapsulating_loop_send
    \/ test_loop_lookup
    \/ test_loop_read_sessions
    \/ test_loop_read_reply_info
    \/ test_loop_send

SpecLookup == Init /\ [][NextLookup]_vars

(***************************************************************************)
(* The threads of Spec on frames of a flow whose key is its own swap,      *)
(* beside the frames of the client's flow.                                 *)
(***************************************************************************)
SelfEncapFrames == { EncSelf, EncSelfNext, EncFwd }
SelfBareFrames == { BareSelf, BareFwd }

NextSelf ==
    \/ unencapsulating_loop_recv_of(SelfEncapFrames)
    \/ unencapsulating_loop_send
    \/ encapsulating_loop_recv_of(SelfBareFrames)
    \/ encapsulating_loop_send
    \/ test_loop_recv_of(SelfBareFrames)
    \/ test_loop_send

SpecSelf == Init /\ [][NextSelf]_vars

(***************************************************************************)
(* The threads of Spec on encapsulated frames whose stack under VXLAN-GPE  *)
(* is not Ethernet(0x894F) / NSH / Ethernet(0x0800) / IPv4 / TCP.          *)
(***************************************************************************)
\* the Ethernet header after VXLAN-GPE has ethertype 0x0800, not 0x894F
EncNotNsh == Take(EncFwd, 62) \o P16(ETH_P_IP) \o Drop(EncFwd, 64)
\* the inner IPv4 header has protocol 17
EncInnerUdp == MkEncap(ETH_P_IP, 5, IPPROTO_UDP, VXLAN_GPE_PORT, 10, 100, 5, BareUdp)
\* the inner Ethernet header has ethertype 0x0806
EncInnerArp == MkEncap(ETH_P_IP, 5, IPPROTO_UDP, VXLAN_GPE_PORT, 10, 100, 5, BareArp)

InnerEncapFrames == { EncNotNsh, EncInnerUdp, EncInnerArp, EncRev }
InnerBareFrames == { BareFwd, BareRev }

NextInner ==
    \/ unencapsulating_loop_recv_of(InnerEncapFrames)
    \/ unencapsulating_loop_send
    \/ encapsulating_loop_recv_of(InnerBareFrames)
    \/ encapsulating_loop_send
    \/ test_loop_recv_of(InnerBareFrames)
    \/ test_loop_send

SpecInner == Init /\ [][NextInner]_vars

(***************************************************************************)
(* make_nsh_decr_si on its own, over NSH MD-Type 1 headers of every        *)
(* Service Index.  The service path header is handled as one 32-bit value, *)
(* so the Service Path Identifiers stay below 2^23.                        *)
(***************************************************************************)
DecrSpis == { 0, 1, 100, 255, 256, 65535, 8388607 }
DecrSis == 0..255
DecrRest ==
    { [nsh_flags_length |-> 6, nsh_md_type |-> 1, nsh_np |-> 3,
       nsh_ctx1 |-> 0, nsh_ctx2 |-> 0, nsh_ctx3 |-> 0, nsh_ctx4 |-> 0],
      [nsh_flags_length |-> 16390, nsh_md_type |-> 1, nsh_np |-> 1,
       nsh_ctx1 |-> 16909060, nsh_ctx2 |-> 84281096, nsh_ctx3 |-> 151653132,
       nsh_ctx4 |-> 219025168] }
DecrHeaders ==
    { StructNshHeader_pack([nsh_flags_length |-> r.nsh_flags_length,
                            nsh_md_type |-> r.nsh_md_type, nsh_np |-> r.nsh_np,
                            nsh_sph |-> spi * 256 + si,
                            nsh_ctx1 |-> r.nsh_ctx1, nsh_ctx2 |-> r.nsh_ctx2,
                            nsh_ctx3 |-> r.nsh_ctx3, nsh_ctx4 |-> r.nsh_ctx4]) :
        spi \in DecrSpis, si \in DecrSis, r \in DecrRest }

InitDecr ==
    /\ sessions = EmptyDict
    /\ sessions_reply_info = EmptyDict
    /\ pc = [t \in Threads |-> "recv"]
    /\ frame = [t \in Threads |-> << >>]
    /\ new_pkt = [t \in Threads |-> << >>]
    /\ isReply = FALSE
    /\ wire = [s \in Sockets |-> << >>]
    /\ cur = [t \in Threads |-> 0]
    /\ built = [t \in Threads |-> << >>]
    /\ nshort = 0
    /\ last_fwd = EmptyDict
    /\ last_rev = EmptyDict
    /\ seen = [t \in Threads |-> << >>]
    /\ nsh_header \in DecrHeaders
    /\ nsh_decremented = NotCalled
    /\ call = NoCall
    /\ ret = NotReturned

\* new_nsh_header_decremented = make_nsh_decr_si(new_nsh_header)
make_nsh_decr_si_call ==
    /\ ~nsh_decremented.called
    /\ nsh_decremented' =
          IF make_nsh_decr_si_raises(nsh_header)
          THEN [called |-> TRUE, raised |-> TRUE, header |-> << >>]
          ELSE [called |-> TRUE, raised |-> FALSE, header |-> make_nsh_decr_si(nsh_header)]
    /\ UNCHANGED << sessions, sessions_reply_info, pc, frame, new_pkt, isReply, wire, cur,
                    built, nshort, last_fwd, last_rev, seen, nsh_header, call, ret >>

NextDecr == make_nsh_decr_si_call

SpecDecr == InitDecr /\ [][NextDecr]_vars

(***************************************************************************)
(* The header helpers on their own: a helper is called once on arguments   *)
(* drawn from bounded sets.  32-bit fields stay below 2^31.                *)
(***************************************************************************)
HeaderTypes == { "eth", "ip", "udp", "vxlan", "nsh", "tcp", "pseudo" }

Codec_size(type) ==
    CASE type = "eth" -> StructEthHeader_size
      [] type = "ip" -> StructIpHeader_size
      [] type = "udp" -> StructUdpHeader_size
      [] type = "vxlan" -> StructVxLanGPEHeader_size
      [] type = "nsh" -> StructNshHeader_size
      [] type = "tcp" -> StructTcpHeaderWithoutOptions_size
      [] type = "pseudo" -> StructPseudoHeader_size

\* cls(record): struct.unpack of the class's struct_fmt
Codec_new(type, record) ==
    CASE type = "eth" -> StructEthHeader(record)
      [] type = "ip" -> StructIpHeader(record)
      [] type = "udp" -> StructUdpHeader(record)
      [] type = "vxlan" -> StructVxLanGPEHeader(record)
      [] type = "nsh" -> StructNshHeader(record)
      [] type = "tcp" -> StructTcpHeaderWithoutOptions(record)
      [] type = "pseudo" -> StructPseudoHeader(record)

\* nt.pack(): pack_namedtuple of the class's struct_fmt
Codec_pack(type, nt) ==
    CASE type = "eth" -> StructEthHeader_pack(nt)
      [] type = "ip" -> StructIpHeader_pack(nt)
      [] type = "udp" -> StructUdpHeader_pack(nt)
      [] type = "vxlan" -> StructVxLanGPEHeader_pack(nt)
      [] type = "nsh" -> StructNshHeader_pack(nt)
      [] type = "tcp" -> StructTcpHeaderWithoutOptions_pack(nt)
      [] type = "pseudo" -> StructPseudoHeader_pack(nt)

CodecU8 == { 0, 6, 255 }
CodecU16 == { 0, 1, 256, 2048, 65535 }
CodecU32 == { 0, 1, 256, 65536, 16777216, 2147483647 }
CodecBytes(n) == { [i \in 1..n |-> 0], [i \in 1..n |-> i], [i \in 1..n |-> 256 - i] }

EthRecords ==
    { [eth_dst |-> d, eth_src |-> s, eth_type |-> t] :
        d \in CodecBytes(6), s \in CodecBytes(6), t \in CodecU16 }
IpRecords ==
    { [ip_ver_ihl_type |-> v, ip_total_length |-> l, ip_id |-> i,
       ip_flags_frag_offset |-> 16384, ip_time2live |-> 64, ip_protocol |-> p,
       ip_hdr_checksum |-> c, ip_src |-> s, ip_dst |-> d] :
        v \in { 17664, 17920 }, l \in CodecU16, i \in { 0, 43981 }, p \in CodecU8,
        c \in { 0, 4660, 65535 }, s \in CodecBytes(4), d \in { IpAddr(1), IpAddr(200) } }
UdpRecords ==
    { [udp_src_port |-> s, udp_dst_port |-> d, udp_data_length |-> l, udp_checksum |-> c] :
        s \in CodecU16, d \in CodecU16, l \in { 8, 65535 }, c \in { 0, 4660 } }
VxlanRecords ==
    { [vxlan_flags |-> f, vxlan_reserved1 |-> r, next_proto |-> n, vni |-> v,
       vxlan_reserved2 |-> q] :
        f \in { 12, 255 }, r \in CodecU16, n \in { 0, 4 }, v \in CodecBytes(3),
        q \in CodecU8 }
NshRecords ==
    { [nsh_flags_length |-> f, nsh_md_type |-> m, nsh_np |-> 3, nsh_sph |-> s,
       nsh_ctx1 |-> a, nsh_ctx2 |-> b, nsh_ctx3 |-> 0, nsh_ctx4 |-> d] :
        f \in { 6, 65535 }, m \in { 1, 255 }, s \in CodecU32, a \in CodecU32,
        b \in { 0, 1 }, d \in { 0, 16777216 } }
TcpRecords ==
    { [tcp_src_port |-> s, tcp_dst_port |-> d, tcp_seq_number |-> q, tcp_ack |-> a,
       tcp_byte_data_offset |-> o, tcp_flags |-> f, tcp_win_size |-> w,
       tcp_checksum |-> c, tcp_urgent_ptr |-> 0] :
        s \in { 0, 1, 256 }, d \in { 80, 65535 }, q \in CodecU32, a \in { 0, 65536 },
        o \in { 80, 240 }, f \in { 2, 255 }, w \in { 0, 65535 }, c \in { 0, 4660 } }
PseudoRecords ==
    { [src |-> s, dst |-> d, zero |-> z, protocol |-> p, tcp_length |-> l] :
        s \in CodecBytes(4), d \in CodecBytes(4), z \in { 0, 255 }, p \in CodecU8,
        l \in CodecU16 }

\* the first byte of each 32-bit field
CodecTopBytes(type) ==
    CASE type = "nsh" -> { 5, 9, 13, 17, 21 }
      [] type = "tcp" -> { 5, 9 }
      [] OTHER -> { }
CodecLengths(type) == { Codec_size(type) - 1, Codec_size(type), Codec_size(type) + 1 }
CodecByteStrings(type) ==
    { [i \in 1..n |-> IF i \in CodecTopBytes(type) THEN ((i * m + c) % 256) % 128
                      ELSE (i * m + c) % 256] :
        n \in CodecLengths(type), m \in { 0, 1, 7, 37 }, c \in { 0, 1, 128, 255 } }

\* the hosts a build runs on (sys.byteorder)
ByteOrders == { "little", "big" }
\* the 16-bit one's-complement sum of a header's big-endian words
RECURSIVE HeaderWordSum(_)
HeaderWordSum(h) == IF Len(h) < 2 THEN 0 ELSE U16(h, 1) + HeaderWordSum(Drop(h, 2))
OnesComplementSum(h) ==
    LET s == HeaderWordSum(h)
        f == (s \div 65536) + (s % 65536)
    IN  (f \div 65536) + (f % 65536)

IpHeaders == { StructIpHeader_pack(r) : r \in { x \in IpRecords : x.ip_id = 43981 } }
\* a header as its sender checksummed it (RFC 791)
WithChecksum(h) ==
    Take(h, 10) \o P16(65535 - OnesComplementSum(Take(h, 10) \o << 0, 0 >> \o Drop(h, 12)))
      \o Drop(h, 12)

InitCalls ==
    /\ sessions = EmptyDict
    /\ sessions_reply_info = EmptyDict
    /\ pc = [t \in Threads |-> "recv"]
    /\ frame = [t \in Threads |-> << >>]
    /\ new_pkt = [t \in Threads |-> << >>]
    /\ isReply = FALSE
    /\ wire = [s \in Sockets |-> << >>]
    /\ cur = [t \in Threads |-> 0]
    /\ built = [t \in Threads |-> << >>]
    /\ nshort = 0
    /\ last_fwd = EmptyDict
    /\ last_rev = EmptyDict
    /\ seen = [t \in Threads |-> << >>]
    /\ nsh_header = << >>
    /\ nsh_decremented = NotCalled
    /\ ret = NotReturned
    /\ \/ \E nt \in EthRecords : call = [fn |-> "pack", type |-> "eth", nt |-> nt]
       \/ \E nt \in IpRecords : call = [fn |-> "pack", type |-> "ip", nt |-> nt]
       \/ \E nt \in UdpRecords : call = [fn |-> "pack", type |-> "udp", nt |-> nt]
       \/ \E nt \in VxlanRecords : call = [fn |-> "pack", type |-> "vxlan", nt |-> nt]
       \/ \E nt \in NshRecords : call = [fn |-> "pack", type |-> "nsh", nt |-> nt]
       \/ \E nt \in TcpRecords : call = [fn |-> "pack", type |-> "tcp", nt |-> nt]
       \/ \E nt \in PseudoRecords : call = [fn |-> "pack", type |-> "pseudo", nt |-> nt]
       \/ \E type \in HeaderTypes : \E record \in CodecByteStrings(type) :
             call = [fn |-> "new", type |-> type, record |-> record]
       \/ \E header \in IpHeaders : \E n \in CodecU16 : \E byteorder \in ByteOrders :
             call = [fn |-> "make_ip_header", header |-> header,
                     new_ip_total_length |-> n, byteorder |-> byteorder]
       \/ \E header \in IpHeaders \cup { WithChecksum(h) : h \in IpHeaders } :
             call = [fn |-> "make_ip_header_swap", header |-> header]

\* cls(nt.pack()): a record is packed, and the bytes are unpacked again
pack_then_new ==
    /\ call.fn = "pack"
    /\ ~ret.called
    /\ ret' = [called |-> TRUE, packed |-> Codec_pack(call.type, call.nt),
               nt |-> Codec_new(call.type, Codec_pack(call.type, call.nt))]
    /\ UNCHANGED << sessions, sessions_reply_info, pc, frame, new_pkt, isReply, wire, cur,
                    built, nshort, last_fwd, last_rev, seen, nsh_header, nsh_decremented,
                    call >>

\* cls(record).pack(): struct.unpack raises struct.error unless the record has
\* the format's size
new_then_pack ==
    /\ call.fn = "new"
    /\ ~ret.called
    /\ ret' = IF Len(call.record) # Codec_size(call.type)
              THEN [called |-> TRUE, raised |-> TRUE, packed |-> << >>]
              ELSE [called |-> TRUE, raised |-> FALSE,
                    packed |-> Codec_pack(call.type, Codec_new(call.type, call.record))]
    /\ UNCHANGED << sessions, sessions_reply_info, pc, frame, new_pkt, isReply, wire, cur,
                    built, nshort, last_fwd, last_rev, seen, nsh_header, nsh_decremented,
                    call >>

make_ip_header_call ==
    /\ call.fn = "make_ip_header"
    /\ ~ret.called
    /\ ret' = [called |-> TRUE,
               header |-> make_ip_header(call.header, call.new_ip_total_length,
                                         call.byteorder)]
    /\ UNCHANGED << sessions, sessions_reply_info, pc, frame, new_pkt, isReply, wire, cur,
                    built, nshort, last_fwd, last_rev, seen, nsh_header, nsh_decremented,
                    call >>

make_ip_header_swap_call ==
    /\ call.fn = "make_ip_header_swap"
    /\ ~ret.called
    /\ ret' = [called |-> TRUE, header |-> make_ip_header_swap(call.header)]
    /\ UNCHANGED << sessions, sessions_reply_info, pc, frame, new_pkt, isReply, wire, cur,
                    built, nshort, last_fwd, last_rev, seen, nsh_header, nsh_decremented,
                    call >>

NextCalls ==
    \/ pack_then_new
    \/ new_then_pack
    \/ make_ip_header_call
    \/ make_ip_header_swap_call

SpecCalls == InitCalls /\ [][NextCalls]_vars

(***************************************************************************)
(* What the claims speak of, over the sockets' logs.                        *)
(***************************************************************************)
\* thread t takes a frame off its socket in this step
Received(t) == cur'[t] = cur[t] + 1

\* the bytes socket log has accepted from thread t for its frame number id
RECURSIVE SentBytes(_, _, _)
SentBytes(log, t, id) ==
    IF log = << >> THEN << >>
    ELSE (IF Head(log).by = t /\ Head(log).id = id THEN Head(log).data ELSE << >>)
           \o SentBytes(Tail(log), t, id)

\* the send calls socket log has accepted from thread t for its frame number id
SendCalls(log, t, id) == { i \in 1..Len(log) : log[i].by = t /\ log[i].id = id }

(***************************************************************************)
(* C1.  Decap recording: when the unencapsulating thread takes a frame     *)
(* whose parse succeeds, with inner key k and bundle B, then if swap(k) is *)
(* in sessions, sessions_reply_info[swap(k)] becomes B and sessions is     *)
(* unchanged; otherwise sessions[k] becomes B and sessions_reply_info is   *)
(* unchanged.                                                              *)
(***************************************************************************)
C1_DecapRecording ==
    [][ (Received("unencap") /\ ParsesEncap(frame'["unencap"])) =>
          LET f == frame'["unencap"]
              k == KeyOf(InnerOf(f))
              B == BundleOf(f)
          IN  IF DictHas(sessions, SwapKey(k))
              THEN /\ DictHas(sessions_reply_info', SwapKey(k))
                   /\ sessions_reply_info'[SwapKey(k)] = B
                   /\ sessions' = sessions
              ELSE /\ DictHas(sessions', k)
                   /\ sessions'[k] = B
                   /\ sessions_reply_info' = sessions_reply_info ]_vars

\* a reply overwrote an earlier reply entry, beside a forward entry of another frame
C1_Witness ==
    /\ cur["unencap"] >= 3
    /\ \E k \in DOMAIN sessions_reply_info :
          /\ DictHas(sessions, k)
          /\ sessions_reply_info[k] = BundleOf(frame["unencap"])
          /\ sessions[k] # sessions_reply_info[k]
          /\ KeyOf(InnerOf(frame["unencap"])) = SwapKey(k)

(***************************************************************************)
(* C2.  Decap dispatch: the bytes the unencapsulating thread has sent for  *)
(* the frame it is handling, followed by what it has left to send, are the *)
(* received frame after its NSH header; they went to sckt_unencap_out only *)
(* when the frame was classified forward, to sckt_unencap_in only when it  *)
(* was classified a reply, and nothing else writes to these two sockets.   *)
(***************************************************************************)
C2_DecapDispatch ==
    /\ \A s \in { "sckt_unencap_in", "sckt_unencap_out" } :
          \A i \in 1..Len(wire[s]) : wire[s][i].by = "unencap"
    /\ (cur["unencap"] >= 1 /\ ParsesEncap(frame["unencap"])) =>
          LET to == IF isReply THEN "sckt_unencap_in" ELSE "sckt_unencap_out"
              id == cur["unencap"]
          IN  /\ pc["unencap"] # "dead"
              /\ SentBytes(wire[to], "unencap", id) \o new_pkt["unencap"]
                    = InnerOf(frame["unencap"])
              /\ \A s \in Sockets \ { to } : SentBytes(wire[s], "unencap", id) = << >>
              /\ pc["unencap"] = "recv" => new_pkt["unencap"] = << >>

\* a reply went out whole on sckt_unencap_in after a forward frame on sckt_unencap_out
C2_Witness ==
    /\ isReply
    /\ pc["unencap"] = "recv"
    /\ SentBytes(wire["sckt_unencap_in"], "unencap", cur["unencap"]) = InnerOf(frame["unencap"])
    /\ wire["sckt_unencap_out"] # << >>

\* an Ethernet header, an IPv4 header with source and destination exchanged
EthSwapped(h) == SubSeq(h, 7, 12) \o SubSeq(h, 1, 6) \o SubSeq(h, 13, 14)
IpSwapped(h) == SubSeq(h, 1, 12) \o SubSeq(h, 17, 20) \o SubSeq(h, 13, 16)
\* an NSH header with its Service Index one less, every other byte as it was
NshSiMinusOne(nsh) == [nsh EXCEPT ![8] = @ - 1]

(***************************************************************************)
(* C3.  Encap output: when the encapsulating thread takes a bare IPv4/TCP  *)
(* frame Q whose key is in sessions with bundle B, the packet it builds    *)
(* for sckt_encap is eth_swap(B.outer_eth), ip_swap(B.outer_ip), B.udp,    *)
(* B.vxlan, B.nsh_eth, B.nsh with SI one less, then Q.                     *)
(***************************************************************************)
C3_EncapOutput ==
    [][ (/\ Received("encap")
         /\ ParsesBare(frame'["encap"])
         /\ DictHas(sessions, KeyOf(frame'["encap"]))) =>
          LET Q == frame'["encap"]
              B == sessions[KeyOf(Q)]
          IN  built'["encap"] =
                EthSwapped(B[1]) \o IpSwapped(B[2]) \o B[3] \o B[4] \o B[5]
                  \o NshSiMinusOne(B[6]) \o Q ]_vars

(***************************************************************************)
(* C4.  Reverse-encap output: when the test thread takes a bare IPv4/TCP   *)
(* frame Q whose swapped key is in sessions and has a reply bundle R in    *)
(* sessions_reply_info, the packet it builds for sckt_encap is             *)
(* eth_swap(R.outer_eth), ip_swap(R.outer_ip), R.udp, R.vxlan,             *)
(* eth_swap(R.nsh_eth), R.nsh with SI one less, then Q.                    *)
(***************************************************************************)
C4_ReverseEncapOutput ==
    [][ (/\ Received("test")
         /\ ParsesBare(frame'["test"])
         /\ DictHas(sessions, SwapKey(KeyOf(frame'["test"])))
         /\ DictHas(sessions_reply_info, SwapKey(KeyOf(frame'["test"])))) =>
          LET Q == frame'["test"]
              R == sessions_reply_info[SwapKey(KeyOf(Q))]
          IN  built'["test"] =
                EthSwapped(R[1]) \o IpSwapped(R[2]) \o R[3] \o R[4] \o EthSwapped(R[5])
                  \o NshSiMinusOne(R[6]) \o Q ]_vars

\* thread t has sent nothing for the frame it took last
NothingSent(t) == \A s \in Sockets : SentBytes(wire[s], t, cur[t]) = << >>

(***************************************************************************)
(* C5.  Unknown flow drop: when the encapsulating thread takes a bare      *)
(* IPv4/TCP frame whose key is not in sessions, it builds no packet, both  *)
(* dictionaries and the sockets are as before, and the thread is back in   *)
(* recvfrom; a thread that built no packet for its frame sends nothing.    *)
(***************************************************************************)
C5_UnknownFlowDrop ==
    /\ []((cur["encap"] >= 1 /\ built["encap"] = << >>) => NothingSent("encap"))
    /\ [][ (/\ Received("encap")
             /\ ParsesBare(frame'["encap"])
             /\ ~DictHas(sessions, KeyOf(frame'["encap"]))) =>
              /\ UNCHANGED << sessions, sessions_reply_info, wire >>
              /\ built'["encap"] = << >>
              /\ new_pkt'["encap"] = << >>
              /\ pc'["encap"] = "recv" ]_vars

\* the encapsulating thread dropped a frame of a flow sessions does not hold,
\* while sessions holds another flow, and took the next frame
C5_Witness ==
    /\ cur["encap"] >= 2
    /\ ParsesBare(frame["encap"])
    /\ ~DictHas(sessions, KeyOf(frame["encap"]))
    /\ sessions # EmptyDict
    /\ built["encap"] = << >>
    /\ pc["encap"] = "recv"

\* the outer stack of f is not IPv4 / UDP / port 4790, as far as f reaches
OuterMismatch(f) ==
    IF Len(f) < 14 THEN FALSE
    ELSE IF U16(f, 13) # 2048 THEN TRUE
    ELSE IF Len(f) < 34 THEN FALSE
    ELSE IF f[24] # 17 THEN TRUE
    ELSE LET udp == 14 + (f[15] % 16) * 4
         IN  Len(f) >= udp + 4 /\ U16(f, udp + 3) # 4790

(***************************************************************************)
(* C6.  Outer-stack filter: when the unencapsulating thread takes a frame  *)
(* whose outer ethertype is not 0x0800, or outer IPv4 protocol is not 17,  *)
(* or outer UDP destination port is not 4790, it builds no packet and both *)
(* dictionaries and the sockets are as before; it sends nothing for it.    *)
(***************************************************************************)
C6_OuterStackFilter ==
    /\ []((cur["unencap"] >= 1 /\ OuterMismatch(frame["unencap"])) => NothingSent("unencap"))
    /\ [][ (Received("unencap") /\ OuterMismatch(frame'["unencap"])) =>
              /\ UNCHANGED << sessions, sessions_reply_info, wire >>
              /\ built'["unencap"] = << >>
              /\ new_pkt'["unencap"] = << >>
              /\ pc'["unencap"] # "send" ]_vars

\* a frame for UDP port 4789 was dropped while a flow was recorded
C6_Witness ==
    /\ cur["unencap"] >= 2
    /\ OuterMismatch(frame["unencap"])
    /\ U16(frame["unencap"], 13) = 2048
    /\ frame["unencap"][24] = 17
    /\ sessions # EmptyDict
    /\ pc["unencap"] = "recv"

\* the parse of f by thread t fails on a header length (struct.error, IndexError)
ParseRaises(t, f) ==
    IF t = "unencap"
    THEN parse_frame_and_deencapsulate(f, EmptyDict, EmptyDict).raised
    ELSE parse_bare_frame(f).what = "raise"

(***************************************************************************)
(* C7.  Header-length mismatch is a silent drop: when a thread takes a     *)
(* frame whose parse fails on a header length, it builds no packet, both   *)
(* dictionaries and the sockets are as before, and the thread is back in   *)
(* recvfrom for the next frame.                                            *)
(***************************************************************************)
C7_LengthMismatchDrop ==
    [][ \A t \in Threads :
          (Received(t) /\ ParseRaises(t, frame'[t])) =>
            /\ UNCHANGED << sessions, sessions_reply_info, wire >>
            /\ built'[t] = << >>
            /\ pc'[t] = "recv" ]_vars

\* thread t, taking frame q, replays a stored bundle: the bundle it replays
Replays(t, q) ==
    /\ ParsesBare(q)
    /\ IF t = "encap" THEN DictHas(sessions, KeyOf(q))
        ELSE DictHas(sessions, SwapKey(KeyOf(q)))
               /\ DictHas(sessions_reply_info, SwapKey(KeyOf(q)))
Replayed(t, q) ==
    IF t = "encap" THEN sessions[KeyOf(q)] ELSE sessions_reply_info[SwapKey(KeyOf(q))]

(***************************************************************************)
(* C8.  Replay never mutates stored state: only the unencapsulating        *)
(* thread's receive changes sessions or sessions_reply_info, and every     *)
(* replay by the encapsulating or the test thread emits the outer stack    *)
(* with SI = stored SI - 1, whatever was replayed before.                  *)
(***************************************************************************)
C8_ReplayKeepsBundles ==
    [][ /\ ~Received("unencap") => UNCHANGED << sessions, sessions_reply_info >>
        /\ \A t \in { "encap", "test" } :
              (Received(t) /\ Replays(t, frame'[t])) =>
                /\ Len(built'[t]) = OuterStackLen + Len(frame'[t])
                /\ FrameSi(built'[t]) = NshSi(Replayed(t, frame'[t])[6]) - 1 ]_vars

(***************************************************************************)
(* C9.  Short send: for every thread, the bytes its send calls have had    *)
(* accepted for the frame it is handling, followed by what it still        *)
(* offers, are the packet it built, on one socket only; it is in the send  *)
(* loop exactly while bytes are left.                                      *)
(***************************************************************************)
C9_ShortSend ==
    \A t \in Threads :
        /\ (pc[t] = "send") <=> (new_pkt[t] # << >>)
        /\ \E s \in Sockets :
              /\ SentBytes(wire[s], t, cur[t]) \o new_pkt[t] = built[t]
              /\ \A s2 \in Sockets \ { s } : SentBytes(wire[s2], t, cur[t]) = << >>

\* a packet went out whole in more than one send call
C9_Witness ==
    \E t \in Threads, s \in Sockets :
        /\ pc[t] = "recv"
        /\ built[t] # << >>
        /\ Cardinality(SendCalls(wire[s], t, cur[t])) >= 2
        /\ SentBytes(wire[s], t, cur[t]) = built[t]

(***************************************************************************)
(* C10.  Sends to sckt_encap are safe for concurrent callers: between two  *)
(* send calls of one frame's drain loop, sckt_encap accepts no send call   *)
(* of another frame.                                                       *)
(***************************************************************************)
C10_NoInterleaving ==
    LET log == wire["sckt_encap"]
    IN  \A i, j, k \in 1..Len(log) :
            (i < j /\ j < k /\ log[i].by = log[k].by /\ log[i].id = log[k].id) =>
              (log[j].by = log[i].by /\ log[j].id = log[i].id)

\* packet pkt carries the six slices of bundle B, as a replay changes them,
\* before the bare frame q
FromBundle(pkt, B, q) ==
    /\ Len(pkt) = OuterStackLen + Len(q)
    /\ SubSeq(pkt, 1, 14) = EthSwapped(B[1])
    /\ SubSeq(pkt, 15, 34) = IpSwapped(B[2])
    /\ SubSeq(pkt, 35, 42) = B[3]
    /\ SubSeq(pkt, 43, 50) = B[4]
    /\ SubSeq(pkt, 51, 64) \in { B[5], EthSwapped(B[5]) }
    /\ SubSeq(pkt, 65, 68) = SubSeq(B[6], 1, 4)
    /\ U32(pkt, 69) = U32(B[6], 5) - 1
    /\ SubSeq(pkt, 73, 88) = SubSeq(B[6], 9, 24)
    /\ InnerOf(pkt) = q

(***************************************************************************)
(* C11.  Reads of the session dictionaries are atomic with respect to the  *)
(* writes: with the unencapsulating thread running between the membership  *)
(* test and the reads of the other two threads, a packet is built only     *)
(* from the six slices of one recorded frame, the one recorded last under  *)
(* the key when the tuple is read; a key found absent builds nothing.      *)
(***************************************************************************)
C11_AtomicReads ==
    [][ /\ (pc["encap"] = "found" /\ built'["encap"] # << >>) =>
              LET k == KeyOf(frame["encap"])
              IN  /\ DictHas(last_fwd, k)
                  /\ FromBundle(built'["encap"], BundleOf(last_fwd[k]), frame["encap"])
        /\ (pc["test"] = "read" /\ built'["test"] # << >>) =>
              LET k == SwapKey(KeyOf(frame["test"]))
              IN  /\ DictHas(last_rev, k)
                  /\ FromBundle(built'["test"], BundleOf(last_rev[k]), frame["test"])
        /\ \A t \in { "encap", "test" } :
              (built'[t] # built[t] /\ built'[t] # << >>) =>
                 pc[t] = (IF t = "encap" THEN "found" ELSE "read") ]_vars

\* the encapsulating thread found its key, the unencapsulating thread then
\* stored another frame's bundle under it, and the read took the later bundle
C11_Witness ==
    /\ built["encap"] # << >>
    /\ seen["encap"] # << >>
    /\ DictHas(last_fwd, KeyOf(frame["encap"]))
    /\ BundleOf(last_fwd[KeyOf(frame["encap"])]) # seen["encap"]
    /\ FromBundle(built["encap"], BundleOf(last_fwd[KeyOf(frame["encap"])]), frame["encap"])

(***************************************************************************)
(* C12.  Per-pipeline order preservation: a thread takes its next frame    *)
(* only when every byte of the packet it built for the previous one has    *)
(* been accepted, and on every socket the send calls of one thread appear  *)
(* in the order in which it received the frames: all bytes of an earlier   *)
(* frame precede any byte of a later frame of the same pipeline.           *)
(***************************************************************************)
C12_OrderPreserved ==
    /\ [](\A s \in Sockets : \A i, j \in 1..Len(wire[s]) :
             (i < j /\ wire[s][i].by = wire[s][j].by) => wire[s][i].id <= wire[s][j].id)
    /\ [][ \A t \in Threads :
              Received(t) =>
                /\ new_pkt[t] = << >>
                /\ built[t] # << >> =>
                      \E s \in Sockets : SentBytes(wire[s], t, cur[t]) = built[t]
                /\ \A s \in Sockets : \A i \in 1..Len(wire[s]) :
                      wire[s][i].by = t => wire[s][i].id <= cur[t] ]_vars

\* the encapsulating thread has emitted two frames whole, the first in two
\* send calls
C12_Witness ==
    LET log == wire["sckt_encap"]
    IN  /\ pc["encap"] = "recv"
        /\ cur["encap"] = 2
        /\ Cardinality(SendCalls(log, "encap", 1)) = 2
        /\ SentBytes(log, "encap", 2) = built["encap"]
        /\ built["encap"] # << >>

(***************************************************************************)
(* C13.  Pass-through on replay: the packet the encapsulating thread, and  *)
(* the test thread, builds from a stored bundle B for a bare frame Q is B  *)
(* followed by Q with exactly three changes: outer Ethernet source and     *)
(* destination exchanged, outer IPv4 source and destination exchanged, and *)
(* the NSH Service Index one less; UDP, VXLAN-GPE, the NSH-carrying        *)
(* Ethernet header and the rest of the NSH header are as stored.           *)
(***************************************************************************)
C13_PassThrough ==
    [][ \A t \in { "encap", "test" } :
          (Received(t) /\ Replays(t, frame'[t])) =>
            LET B == Replayed(t, frame'[t])
                pkt == built'[t]
            IN  /\ Len(pkt) = OuterStackLen + Len(frame'[t])
                /\ SubSeq(pkt, 1, 14) = EthSwapped(B[1])
                /\ SubSeq(pkt, 15, 34) = IpSwapped(B[2])
                /\ SubSeq(pkt, 35, 42) = B[3]
                /\ SubSeq(pkt, 43, 50) = B[4]
                /\ SubSeq(pkt, 51, 64) = B[5]
                /\ SubSeq(pkt, 65, 88) = NshSiMinusOne(B[6])
                /\ InnerOf(pkt) = frame'[t] ]_vars

(***************************************************************************)
(* C14.  No silent wrap at SI = 0: when the bundle a thread replays has    *)
(* NSH Service Index 0, the thread either builds no packet or builds one   *)
(* whose Service Index is not 255 and whose Service Path Identifier is the *)
(* stored one.                                                             *)
(***************************************************************************)
C14_NoWrapAtZero ==
    [][ \A t \in { "encap", "test" } :
          (/\ Received(t)
           /\ Replays(t, frame'[t])
           /\ NshSi(Replayed(t, frame'[t])[6]) = 0) =>
            \/ built'[t] = << >>
            \/ /\ FrameSi(built'[t]) # 255
               /\ SubSeq(built'[t], 69, 71) = SubSeq(Replayed(t, frame'[t])[6], 5, 7) ]_vars

(***************************************************************************)
(* C15.  Decrement-SI helper: for a 24-byte NSH MD-Type 1 header whose     *)
(* Service Index is in 1..255, make_nsh_decr_si returns (does not raise) a *)
(* 24-byte header whose Service Index is one less and whose Service Path   *)
(* Identifier, flags/length, MD type, next protocol and four context words *)
(* are those of the argument.                                              *)
(***************************************************************************)
C15_DecrSiHelper ==
    (/\ nsh_decremented.called
     /\ Len(nsh_header) = 24
     /\ nsh_header[8] \in 1..255) =>
        /\ ~nsh_decremented.raised
        /\ Len(nsh_decremented.header) = 24
        /\ nsh_decremented.header[8] = nsh_header[8] - 1
        /\ SubSeq(nsh_decremented.header, 5, 7) = SubSeq(nsh_header, 5, 7)
        /\ SubSeq(nsh_decremented.header, 1, 4) = SubSeq(nsh_header, 1, 4)
        /\ SubSeq(nsh_decremented.header, 9, 24) = SubSeq(nsh_header, 9, 24)

\* the helper took SI 1 to SI 0 under the largest SPI, with context words set
C15_Witness ==
    /\ nsh_decremented.called
    /\ nsh_header[8] = 1
    /\ SubSeq(nsh_header, 5, 7) = << 127, 255, 255 >>
    /\ nsh_header[24] # 0
    /\ nsh_decremented.header[8] = 0

\* the bare frame f is not IPv4, or not TCP, as far as f reaches
BareMismatch(f) ==
    /\ Len(f) >= 14
    /\ \/ U16(f, 13) # 2048
       \/ Len(f) >= 24 /\ f[24] # 6

(***************************************************************************)
(* C16.  Bare-frame filter: when the encapsulating thread or the test      *)
(* thread takes a frame whose ethertype is not 0x0800 or whose IPv4        *)
(* protocol is not 6, whatever the dictionaries hold, it builds no packet, *)
(* both dictionaries and the sockets are as before, and it sends nothing   *)
(* for that frame.                                                         *)
(***************************************************************************)
C16_BareFrameFilter ==
    /\ [](\A t \in { "encap", "test" } :
             (cur[t] >= 1 /\ BareMismatch(frame[t])) => NothingSent(t))
    /\ [][ \A t \in { "encap", "test" } :
              (Received(t) /\ BareMismatch(frame'[t])) =>
                /\ UNCHANGED << sessions, sessions_reply_info, wire >>
                /\ built'[t] = << >>
                /\ new_pkt'[t] = << >>
                /\ pc'[t] # "send" ]_vars

\* with the flow recorded, the encapsulating thread dropped
\* a UDP frame of the flow's addresses and ports and the test thread a non-IPv4
\* frame, and both are back in recvfrom
C16_Witness ==
    /\ DictHas(sessions, KeyOf(BareFwd))
    /\ frame["encap"] = BareUdp
    /\ frame["test"] = BareArp
    /\ pc["encap"] = "recv"
    /\ pc["test"] = "recv"
    /\ NothingSent("encap")
    /\ NothingSent("test")

(***************************************************************************)
(* C17.  Entries persist: no step of any thread removes a key from         *)
(* sessions or from sessions_reply_info.                                   *)
(***************************************************************************)
C17_EntriesPersist ==
    [][ /\ DOMAIN sessions \subseteq DOMAIN sessions'
        /\ DOMAIN sessions_reply_info \subseteq DOMAIN sessions_reply_info' ]_vars

\* both dictionaries still hold the flow after the encapsulating thread and
\* the test thread each replayed it and sent the packet
C17_Witness ==
    /\ DictHas(sessions, KeyOf(BareFwd))
    /\ DictHas(sessions_reply_info, KeyOf(BareFwd))
    /\ built["encap"] # << >>
    /\ built["test"] # << >>
    /\ \A t \in Threads : pc[t] = "recv"

(***************************************************************************)
(* C18.  Provenance of forward entries: every key k of sessions is the     *)
(* inner key of a frame the unencapsulating thread took while sessions did *)
(* not hold swap(k), and sessions[k] is the bundle of the last such frame. *)
(***************************************************************************)
C18_ForwardProvenance ==
    \A k \in DOMAIN sessions :
        /\ DictHas(last_fwd, k)
        /\ KeyOf(InnerOf(last_fwd[k])) = k
        /\ sessions[k] = BundleOf(last_fwd[k])

\* the third frame of the unencapsulating thread, forward again after a
\* reply, replaced the bundle of the first
C18_Witness ==
    /\ cur["unencap"] = 3
    /\ frame["unencap"] = EncFwdSi0
    /\ DictHas(sessions_reply_info, KeyOf(BareFwd))
    /\ DictHas(sessions, KeyOf(BareFwd))
    /\ sessions[KeyOf(BareFwd)] = BundleOf(EncFwdSi0)
    /\ Len(wire["sckt_unencap_out"]) >= 2

(***************************************************************************)
(* C19.  Forward insertion is an idempotent overwrite: when the            *)
(* unencapsulating thread takes a frame whose inner key k is already in    *)
(* sessions, the frame is classified forward again (it goes to             *)
(* sckt_unencap_out), sessions[k] becomes its bundle and                   *)
(* sessions_reply_info is unchanged; and handling any recorded frame a     *)
(* second time leaves both dictionaries as the first time left them.  For  *)
(* all keys, keys equal to their own swap included.                        *)
(***************************************************************************)
C19_IdempotentOverwrite ==
    [][ (Received("unencap") /\ ParsesEncap(frame'["unencap"])) =>
          LET f == frame'["unencap"]
              k == KeyOf(InnerOf(f))
              again == parse_frame_and_deencapsulate(f, sessions', sessions_reply_info')
          IN  /\ DictHas(sessions, k) =>
                    /\ ~isReply'
                    /\ sessions'[k] = BundleOf(f)
                    /\ sessions_reply_info' = sessions_reply_info
              /\ again.sessions = sessions'
              /\ again.sessions_reply_info = sessions_reply_info' ]_vars

(***************************************************************************)
(* C20.  Forward prime, then encap: when the encapsulating thread takes,   *)
(* unchanged, the inner frame the unencapsulating thread sent to           *)
(* sckt_unencap_out for the last forward frame F of that key, the packet   *)
(* it builds has the length of F and is F byte for byte, except that the   *)
(* outer Ethernet source and destination are exchanged, the outer IPv4     *)
(* source and destination are exchanged, and the NSH Service Index is one  *)
(* less.                                                                   *)
(***************************************************************************)
C20_PrimeThenEncap ==
    [][ (/\ Received("encap")
         /\ ParsesBare(frame'["encap"])
         /\ DictHas(last_fwd, KeyOf(frame'["encap"]))
         /\ InnerOf(last_fwd[KeyOf(frame'["encap"])]) = frame'["encap"]
         /\ \E id \in 1..cur["unencap"] :
                SentBytes(wire["sckt_unencap_out"], "unencap", id) = frame'["encap"]) =>
          LET F == last_fwd[KeyOf(frame'["encap"])]
          IN  built'["encap"] =
                EthSwapped(SubSeq(F, 1, 14)) \o IpSwapped(SubSeq(F, 15, 34))
                  \o SubSeq(F, 35, 71) \o << F[72] - 1 >> \o SubSeq(F, 73, Len(F)) ]_vars

(***************************************************************************)
(* C21.  No packet synthesis, no payload rewrite: every send call carries  *)
(* bytes of the packet its thread built for the frame it is handling; a    *)
(* thread builds at most one packet per received frame, and the bytes sent *)
(* for it, on one socket, never exceed it; the packet of the               *)
(* unencapsulating thread is the received frame after its NSH header, the  *)
(* packet of the other two threads ends with the whole received frame.     *)
(***************************************************************************)
C21_NoSynthesis ==
    /\ [](\A t \in Threads :
             /\ \E s \in Sockets :
                   /\ SentBytes(wire[s], t, cur[t]) \o new_pkt[t] = built[t]
                   /\ \A s2 \in Sockets \ { s } : SentBytes(wire[s2], t, cur[t]) = << >>
             /\ built[t] # << >> =>
                   IF t = "unencap"
                   THEN built[t] = InnerOf(frame[t])
                   ELSE /\ Len(built[t]) = OuterStackLen + Len(frame[t])
                        /\ InnerOf(built[t]) = frame[t])
    /\ [][ /\ \A t \in Threads : built'[t] # built[t] => Received(t)
           /\ \A s \in Sockets :
                 wire'[s] # wire[s] =>
                   \E t \in Threads :
                       /\ pc[t] = "send"
                       /\ ~Received(t)
                       /\ new_pkt[t] # << >>
                       /\ Len(wire'[s]) = Len(wire[s]) + 1
                       /\ SubSeq(wire'[s], 1, Len(wire[s])) = wire[s]
                       /\ wire'[s][Len(wire'[s])].by = t
                       /\ wire'[s][Len(wire'[s])].id = cur[t]
                       /\ wire'[s][Len(wire'[s])].data \o new_pkt'[t] = new_pkt[t]
                       /\ \A s2 \in Sockets \ { s } : wire'[s2] = wire[s2] ]_vars

\* the three threads have each sent the packet of a frame, whole
C21_Witness ==
    /\ \A t \in Threads : pc[t] = "recv" /\ built[t] # << >>
    /\ SentBytes(wire["sckt_unencap_in"], "unencap", cur["unencap"]) = InnerOf(frame["unencap"])
    /\ InnerOf(SentBytes(wire["sckt_encap"], "encap", cur["encap"])) = frame["encap"]
    /\ InnerOf(SentBytes(wire["sckt_encap"], "test", cur["test"])) = frame["test"]
    /\ wire["sckt_unencap_out"] # << >>

\* C22. Header-codec round trip: for each of the seven header types, unpacking
\* the packed form of a field record gives back the same field values, and
\* packing the record unpacked from a byte string of the header's exact length
\* gives back the same bytes.
C22_CodecRoundTrip ==
    /\ (call.fn = "pack" /\ ret.called) =>
          /\ Len(ret.packed) = Codec_size(call.type)
          /\ ret.nt = call.nt
    /\ (call.fn = "new" /\ ret.called /\ Len(call.record) = Codec_size(call.type)) =>
          /\ ~ret.raised
          /\ ret.packed = call.record

\* an NSH record whose service path header takes all four bytes went through
\* pack and unpack
C22_Witness ==
    /\ call.fn = "pack" /\ call.type = "nsh" /\ ret.called
    /\ call.nt.nsh_sph = 2147483647 /\ call.nt.nsh_flags_length = 6

\* C23. IPv4 checksum round trip: for a 20-byte IPv4 header h and a 16-bit total
\* length n, make_ip_header(h, n) returns a 20-byte header whose total length is
\* n, whose other fields apart from the checksum are those of h, and whose ten
\* words, checksum included, have the one's-complement sum 0xFFFF.
C23_IpChecksumRoundTrip ==
    (call.fn = "make_ip_header" /\ ret.called) =>
        /\ Len(ret.header) = 20
        /\ U16(ret.header, 3) = call.new_ip_total_length
        /\ SubSeq(ret.header, 1, 2) = SubSeq(call.header, 1, 2)
        /\ SubSeq(ret.header, 5, 10) = SubSeq(call.header, 5, 10)
        /\ SubSeq(ret.header, 13, 20) = SubSeq(call.header, 13, 20)
        /\ OnesComplementSum(ret.header) = 65535

\* C24. Address swap keeps the checksum valid: when the header given to
\* make_ip_header_swap has the one's-complement sum 0xFFFF, the header it
\* returns has source and destination exchanged, every other byte (the checksum
\* too) as given, and the one's-complement sum 0xFFFF.
C24_SwapKeepsChecksum ==
    (/\ call.fn = "make_ip_header_swap" /\ ret.called
     /\ OnesComplementSum(call.header) = 65535) =>
        /\ SubSeq(ret.header, 13, 16) = SubSeq(call.header, 17, 20)
        /\ SubSeq(ret.header, 17, 20) = SubSeq(call.header, 13, 16)
        /\ SubSeq(ret.header, 1, 12) = SubSeq(call.header, 1, 12)
        /\ OnesComplementSum(ret.header) = 65535

\* a header of valid checksum and two different addresses went through the swap
C24_Witness ==
    /\ call.fn = "make_ip_header_swap" /\ ret.called
    /\ OnesComplementSum(call.header) = 65535
    /\ SubSeq(call.header, 13, 16) # SubSeq(call.header, 17, 20)
    /\ U16(call.header, 11) \notin { 0, 65535 }

\* a complete encapsulated frame that passes the outer filters, whose Ethernet
\* header after VXLAN-GPE is not of ethertype 0x894F, or whose inner Ethernet
\* header is not of ethertype 0x0800, or whose inner IPv4 protocol is not 6
InnerMismatch(f) ==
    /\ Len(f) >= OuterStackLen + 54
    /\ U16(f, 13) = 2048 /\ f[15] % 16 = 5 /\ f[24] = 17 /\ U16(f, 37) = 4790
    /\ \/ U16(f, 63) # 35151
       \/ U16(InnerOf(f), 13) # 2048
       \/ InnerOf(f)[24] # 6

\* C25. Inner-stack preconditions: when the unencapsulating thread takes a
\* frame that passes the outer filters but whose Ethernet header after
\* VXLAN-GPE is not of ethertype 0x894F, or whose inner Ethernet header is not
\* of ethertype 0x0800, or whose inner IPv4 protocol is not 6, it builds no
\* packet, both dictionaries and the sockets are as before, and it sends
\* nothing for that frame.
C25_InnerStackFilter ==
    /\ []((cur["unencap"] >= 1 /\ InnerMismatch(frame["unencap"])) => NothingSent("unencap"))
    /\ [][ (Received("unencap") /\ InnerMismatch(frame'["unencap"])) =>
              /\ UNCHANGED << sessions, sessions_reply_info, wire >>
              /\ built'["unencap"] = << >>
              /\ pc'["unencap"] # "send" ]_vars

\* C26. Reverse-encap never reads a missing reply bundle: when the test thread
\* takes a bare IPv4/TCP frame whose swapped key is in sessions but not in
\* sessions_reply_info, it builds no packet, both dictionaries and the sockets
\* are as before, nothing fails, and the thread is back in recvfrom for the
\* next frame.
C26_NoMissingReplyRead ==
    [][ (/\ Received("test")
         /\ ParsesBare(frame'["test"])
         /\ DictHas(sessions, SwapKey(KeyOf(frame'["test"])))
         /\ ~DictHas(sessions_reply_info, SwapKey(KeyOf(frame'["test"])))) =>
            /\ UNCHANGED << sessions, sessions_reply_info, wire >>
            /\ built'["test"] = << >>
            /\ pc'["test"] = "recv" ]_vars

\* C27. Only the unencapsulating thread writes the dictionaries: every step of
\* the encapsulating thread and of the test thread (taking a frame, building or
\* dropping, sending, failing) leaves sessions and sessions_reply_info as they
\* were.
C27_OnlyDecapWrites ==
    [][ \A t \in { "encap", "test" } :
          (Received(t) \/ pc'[t] # pc[t] \/ new_pkt'[t] # new_pkt[t]) =>
             UNCHANGED << sessions, sessions_reply_info >> ]_vars

\* both dictionaries hold the flow, and the encapsulating and the test thread
\* have each built a packet from them and sent it whole
C27_Witness ==
    /\ sessions # EmptyDict /\ sessions_reply_info # EmptyDict
    /\ \A t \in { "encap", "test" } :
          /\ cur[t] >= 1 /\ built[t] # << >> /\ pc[t] = "recv"
          /\ SentBytes(wire["sckt_encap"], t, cur[t]) = built[t]

\* C28. Primed flows are never dropped: when the encapsulating thread takes a
\* bare IPv4/TCP frame whose key is in sessions, it goes to its send loop with
\* a packet that carries the frame, and a thread in its send loop for its n-th
\* frame eventually has sent that packet whole, once, on sckt_encap.
C28_PrimedNeverDropped ==
    /\ [][ (/\ Received("encap")
            /\ ParsesBare(frame'["encap"])
            /\ DictHas(sessions, KeyOf(frame'["encap"]))) =>
               /\ pc'["encap"] = "send"
               /\ InnerOf(built'["encap"]) = frame'["encap"] ]_vars
    /\ \A n \in 1..MaxFrames :
          (cur["encap"] = n /\ pc["encap"] = "send") ~>
             (/\ cur["encap"] = n /\ pc["encap"] = "recv"
              /\ SentBytes(wire["sckt_encap"], "encap", n) = built["encap"])

\* the inner frame the unencapsulating thread's send call e on socket s is part
\* of: the frame in hand, or what an earlier turn sent whole
SentInner(s, e) ==
    IF e.id = cur["unencap"] THEN InnerOf(frame["unencap"])
    ELSE SentBytes(wire[s], "unencap", e.id)

\* C29. Write before emit: whenever the unencapsulating thread has sent some
\* byte of an inner frame of key k on sckt_unencap_out, sessions has k; whenever
\* it has sent some byte of one on sckt_unencap_in, sessions_reply_info has
\* swap(k).
C29_WriteBeforeEmit ==
    /\ \A i \in 1..Len(wire["sckt_unencap_out"]) :
          LET e == wire["sckt_unencap_out"][i]
          IN  (e.by = "unencap" /\ e.data # << >>) =>
                 DictHas(sessions, KeyOf(SentInner("sckt_unencap_out", e)))
    /\ \A i \in 1..Len(wire["sckt_unencap_in"]) :
          LET e == wire["sckt_unencap_in"][i]
          IN  (e.by = "unencap" /\ e.data # << >>) =>
                 DictHas(sessions_reply_info,
                         SwapKey(KeyOf(SentInner("sckt_unencap_in", e))))

\* the send loop has sent the first part of a reply's inner frame on
\* sckt_unencap_in and still holds the rest, after a forward frame went out
\* whole on sckt_unencap_out
C29_Witness ==
    /\ pc["unencap"] = "send" /\ isReply
    /\ SentBytes(wire["sckt_unencap_in"], "unencap", cur["unencap"]) # << >>
    /\ new_pkt["unencap"] # << >>
    /\ wire["sckt_unencap_out"] # << >>

\* C30. Direction exclusivity: sessions never has both a key k and swap(k)
\* when the two differ; and when the unencapsulating thread records a frame of
\* such a key k, it is not a reply if sessions has k, and it is a reply if
\* sessions has swap(k).
C30_DirectionExclusive ==
    /\ [](\A k \in DOMAIN sessions : k # SwapKey(k) => ~DictHas(sessions, SwapKey(k)))
    /\ [][ (/\ Received("unencap")
            /\ ParsesEncap(frame'["unencap"])
            /\ KeyOf(InnerOf(frame'["unencap"])) # SwapKey(KeyOf(InnerOf(frame'["unencap"])))) =>
               LET k == KeyOf(InnerOf(frame'["unencap"]))
               IN  /\ DictHas(sessions, k) =>
                        /\ ~isReply'
                        /\ sessions_reply_info' = sessions_reply_info
                        /\ DOMAIN sessions' = DOMAIN sessions
                   /\ DictHas(sessions, SwapKey(k)) =>
                        /\ isReply'
                        /\ sessions' = sessions
                        /\ DictHas(sessions_reply_info', SwapKey(k)) ]_vars

\* frames of both directions of a flow came in after its first frame: the last
\* one was a reply, and sessions holds one direction only
C30_Witness ==
    /\ cur["unencap"] >= 3
    /\ isReply
    /\ Cardinality(DOMAIN sessions) = 1
    /\ \E k \in DOMAIN sessions : k # SwapKey(k) /\ DictHas(sessions_reply_info, k)
    /\ DOMAIN last_fwd = DOMAIN sessions /\ DOMAIN last_rev = DOMAIN sessions

\* C31. Reply entries belong to known forward flows: every key of
\* sessions_reply_info is a key of sessions.
C31_ReplyKeysKnown ==
    \A k \in DOMAIN sessions_reply_info : DictHas(sessions, k)

\* a reply bundle is stored, and forward frames came in before and after it
C31_Witness ==
    /\ sessions_reply_info # EmptyDict
    /\ cur["unencap"] >= 3
    /\ ~isReply
    /\ ParsesEncap(frame["unencap"])

\* dictionary d has the same entry, or the same absence of one, under x as e
SameEntry(d, e, x) ==
    /\ DictHas(d, x) <=> DictHas(e, x)
    /\ DictHas(d, x) => d[x] = e[x]

\* C32. Flow isolation: when the unencapsulating thread takes a frame of inner
\* key k, only sessions[k] can change if the frame is not a reply and only
\* sessions_reply_info[swap(k)] can change if it is; the other dictionary and
\* the entries of every other key are as before, and a frame that is not
\* recorded changes nothing.
C32_FlowIsolation ==
    [][ Received("unencap") =>
          IF ~ParsesEncap(frame'["unencap"])
          THEN UNCHANGED << sessions, sessions_reply_info >>
          ELSE LET k == KeyOf(InnerOf(frame'["unencap"]))
               IN  IF ~isReply'
                   THEN /\ sessions_reply_info' = sessions_reply_info
                        /\ \A x \in (DOMAIN sessions) \cup (DOMAIN sessions') :
                              x # k => SameEntry(sessions', sessions, x)
                   ELSE /\ sessions' = sessions
                        /\ \A x \in (DOMAIN sessions_reply_info)
                                      \cup (DOMAIN sessions_reply_info') :
                              x # SwapKey(k) =>
                                 SameEntry(sessions_reply_info', sessions_reply_info, x) ]_vars

\* two flows are recorded side by side, one of them with a reply bundle, after
\* three frames or more
C32_Witness ==
    /\ Cardinality(DOMAIN sessions) = 2
    /\ sessions_reply_info # EmptyDict
    /\ cur["unencap"] >= 3
    /\ \E k \in DOMAIN sessions : ~DictHas(sessions_reply_info, k)

====
